---- MODULE Spec2Model ----
(***************************************************************************)
(* Verification model of the Spatz LoRaWAN-DTN relay daemon.               *)
(*                                                                         *)
(* The module holds several specifications over one set of variables, one  *)
(* per subsystem:                                                          *)
(*   SpecUplink : uplink_processor_task with its dedup cache and the       *)
(*                bundle receive buffers                                   *)
(*   SpecRouter : QueueManager::collect_send_items_task, the flooding      *)
(*                router and the PacketCache                               *)
(*   SpecDuty   : DutyCycleManager and the downlink collector task         *)
(*   SpecCache  : direct use of the PacketCache                            *)
(*   SpecHop    : hop-to-hop fragmentation and the hop receive buffers     *)
(*   SpecRelay  : the relay branch of uplink_processor_task                *)
(*   SpecGateways : GatewayIdsManager and Flooding::flooding               *)
(*   SpecRelayQueue : the router with a relay queue of several packets     *)
(*   SpecShutdown : the graceful shutdown generator, agents and controller *)
(*   SpecTasks  : the spawned tasks at their select! after a shutdown      *)
(*   SpecFlooding : the flooding tasks the router spawns                   *)
(*   SpecBundleFragment : BundleFragment::new                              *)
(* A specification leaves the variables of the other subsystems unchanged. *)
(***************************************************************************)
EXTENDS Integers, Sequences, FiniteSets, TLC

(***************************************************************************)
(* Bounds of the model                                                     *)
(***************************************************************************)
\* Horizon of the wall clock of the cache specifications (in cache time units).
MaxTime == 2
\* Cache timeout (configuration value timeout_minutes), in cache time units.
TTL == 2
\* Number of uplink frames the dispatcher processes in one behaviour.
MaxUplinks == 3
\* Largest total_amount of fragments of a bundle.
MaxTotal == 2
\* Capacity of the mpsc channels (10 in app_start.rs, scaled down).
ChannelCapacity == 1
\* QueueManager.max_relay_packets and QueueManager.max_bundle_buffers.
MaxRelayPackets == 1
MaxBundleBuffers == 2
\* Number of bundles the bundle processor takes in one behaviour.
MaxBundles == 3
\* DataRate::max_usable_payload_size of the router's data rate, scaled down.
MaxUsablePayloadSize == 17
\* Longest payload of a bundle handed in by a websocket client.
MaxPayloadLen == 4
\* Number of direct PacketCache::insert calls in one behaviour.
MaxInserts == 3
\* Number of downlink commands observed in one behaviour.
MaxDownlinks == 3
\* Horizon of the wall clock of the duty cycle specification, in minutes (the
\* clock counts seconds).
MaxMinutes == 62
\* Number of packets handed to the hop 2 hop fragmenter in one behaviour.
MaxHopSends == 2
\* Number of packets the receive buffer manager takes in one behaviour.
MaxHopPackets == 4
\* The list-gateway-ids requests the gateway ids manager makes.
MaxRequests == 5
\* The calls of Flooding::flooding.
MaxFloods == 2
\* Number of shutdown agents, clones included.
MaxAgents == 2
\* Number of initiate_shutdown calls in one behaviour.
MaxConditions == 2
\* Number of times await_shutdown returns on one agent in one behaviour.
MaxReturns == 2
\* Number of items each task's work channel or queue still holds for it.
MaxTaskInputs == 1
\* Number of frames the router emits in one behaviour.
MaxEmitted == 3
\* Largest fragment index a bundle fragment is built with.
MaxFragmentIndex == 2
\* Number of enqueue and try_enqueue calls on the MQTT runtime.
MaxEnqueues == 2
\* Number of connection errors the MQTT event loop meets.
MaxErrors == 4
\* Seconds the clock of the MQTT event loop runs.
MaxMqttSeconds == 41

(***************************************************************************)
(* Program constants                                                       *)
(***************************************************************************)
\* Fragment::No has no index; MessageCache::insert uses u8::MAX for it.
U8Max == 255
\* BundleSendBuffer::new: header bytes of an unfragmented packet and of a
\* fragment, and the number of fragments the 7 bit counter allows.
FixedBytesWithoutFragmentation == 14
FixedBytesPerFragment == 15
MaxFragments == 128
\* remove_outdated_capacity keeps an entry while its age in whole minutes is
\* not above this.
OutdatedMinutes == 60
\* Seconds in one minute; the wall clock of the duty cycle specification
\* counts seconds and Duration::num_minutes() counts whole minutes.
SecondsPerMinute == 60
\* Milliseconds in one hour, the factor of EuSubBand::duty_cycle().
MsPerHour == 3600000
\* LO_RA_WAN_PROPRIETARY_TAG, the first byte of every packet of the protocol.
LoRaWanProprietaryTag == 224
\* HOP_2_HOP_HEADERS_SIZE: packet hash, fragment amount and fragment index.
Hop2HopHeadersSize == 6
\* BUNDLE_FRAGMENT_HEADERS_SIZE: destination, source, timestamp and fragment
\* index.
BundleFragmentHeadersSize == 13
\* PacketType::CompleteBundle and PacketType::Hop2HopFragment as u8.
PacketTypeCompleteBundle == 0
PacketTypeHop2HopFragment == 5
\* PacketType::BundleFragment and PacketType::BundleFragmentEnd as u8.
PacketTypeBundleFragment == 1
PacketTypeBundleFragmentEnd == 2

VARIABLES
    now,                        \* Utc::now()
    last_op,                    \* the last operation taken, its input and its outcome
    \* ---- uplink dispatcher (uplink_processing.rs, message_cache.rs)
    message_cache,              \* MessageCache.cache: key -> timestamp
    reset_timeout,              \* MessageCache.reset_timeout / PacketCache.reset_timeout
    end_device_ids,             \* AppState.end_device_ids
    bundle_receive_buffer_map,  \* (source, timestamp) -> BundleReceiveBuffer
    relay_tx,                   \* relay channel, dispatcher -> queue collector
    bundles_to_ws,              \* bundles broadcast to the websocket clients
    uplink_task,                \* "running" or "panicked"
    uplinks,                    \* number of uplinks the dispatcher has taken
    handled_at,                 \* frame -> time the dispatcher last handled it
    uplink_tx_info,             \* the tx_info of the uplink processed last
    \* ---- packet cache (packet_cache.rs)
    packet_cache,               \* PacketCache.cache: frame -> timestamp
    inserts,                    \* number of PacketCache::insert calls made directly
    accepted,                   \* history: frame -> time of its last insert that returned Ok
    \* ---- queue collector and router (packet_queue_manager.rs, routing/)
    bundle_send_buffer_tx,      \* channel, bundle processor -> queue collector
    relay_packet_queue,         \* QueueManager.relay_packet_queue
    bundle_send_buffer_queue,   \* QueueManager.bundle_send_buffer_queue
    bundles,                    \* number of bundles the bundle processor has taken
    router_pc,                  \* position of routing_task in its loop body
    skip_delay,                 \* routing_task's skip_delay
    relay_empty_at_check,       \* what the last relay queue check of the router found
    slept,                      \* whether the router's current pass began with the delay
    tick_error,                 \* whether the router's last pass ended with an error
    max_relay_packets,          \* QueueManager.max_relay_packets
    \* ---- duty cycle accounting (duty_cycle_manager.rs)
    duty_cycle_manager,         \* DutyCycleManager.gateways: id -> band -> entries
    downlink_callback_tx,       \* channel, DownlinkCallback -> collector task
    downlinks,                  \* number of downlink commands observed
    consumed,                   \* every (gateway, band, time, airtime) consumed
    \* ---- hop by hop fragments (lorawan_protocol.rs, receive_buffers.rs)
    hop_fragments,              \* what convert_to_hop_2_hop_fragments returned last
    hop2hop_receive_buffers,    \* ReceiveBufferManager.hop2hop_receive_buffers
    hop_sends,                  \* number of packets fragmented
    hop_packets,                \* number of packets the receive buffer manager took
    hop_combined,               \* the packet the last hop 2 hop combine decoded, or None
    \* ---- gateways and flooding (gateway_ids_manager.rs, routing/flooding.rs)
    gateway_ids,                \* GatewayIdsManager.gateway_ids
    retry,                      \* update_gateways' retry
    gateway_pc,                 \* position of update_gateways in its loop body
    shutdown,                   \* the ShutdownConditions initiated, or None
    requests,                   \* number of request_gateway_ids calls answered
    published,                  \* the try_enqueue attempts of the last flood
    floods,                     \* number of floods run
    \* ---- graceful shutdown (graceful_shutdown.rs)
    generator,                  \* whether the ShutdownGenerator still exists
    agents,                     \* agent id -> the ShutdownAgent and what it has seen
    notify_version,             \* version of the value in the notify watch channel
    condition_channel,          \* the condition mpsc channel
    conditions_sent,            \* every condition handed to initiate_shutdown, in order
    conditions_received,        \* the conditions the controller has received, in order
    controller_pc,              \* position of the controller in its main loop
    wait_elapsed,               \* seconds since await_complete_shutdown began
    wait_ended_by,              \* which branch ended await_complete_shutdown, or None
    tasks,                      \* task -> its position and the work it has still to take
    flood_tasks,                \* the flooding tasks the router has spawned, and their publishes
    \* ---- MQTT runtime (chirpstack_gwb_integration: runtime.rs, runtime/event_loop.rs)
    runtime_handles,            \* handle -> Runtime.received_stop of that clone
    mqtt_requests,              \* the request channel of the MQTT client
    stop_signal,                \* number of items in the stop signal channel
    event_loop,                 \* "running" or "stopped"
    mqtt_published,             \* number of publishes the event loop has sent
    enqueues,                   \* number of enqueue and try_enqueue calls made
    error_counter,              \* run_event_loop's error_counter
    last_error,                 \* run_event_loop's last_error
    error_times,                \* history: the time of every connection error
    connection_errors,          \* the messages in the connection error broadcast channel
    error_task,                 \* mqtt_connection_error_task: "running" or "returned"
    mqtt_shutdown,              \* the condition the shutdown was initiated with, or None
    \* ---- the pace of the router (routing/flooding.rs)
    since_flood,                \* history: the least time since the router started a flood
    flood_gap,                  \* history: the least time between the last two floods started
    router_floods,              \* history: number of floods the router has started, up to 2
    pace_followed,              \* whether the behaviour keeps the three histories above
    \* ---- the tokio mutexes of AppState and the tasks that lock them
    mutexes,                    \* mutex -> the task that holds it, or None
    lock_waiters,               \* mutex -> the tasks waiting in lock().await, first come first
    lock_tasks                  \* task -> the lock and unlock steps it still has in this round

varsUplink == <<message_cache, end_device_ids, bundle_receive_buffer_map, relay_tx,
                bundles_to_ws, uplink_task, uplinks, handled_at, uplink_tx_info>>

varsCache == <<packet_cache, inserts, accepted>>

varsRouter == <<bundle_send_buffer_tx, relay_packet_queue, bundle_send_buffer_queue,
                bundles, router_pc, skip_delay, relay_empty_at_check, slept,
                tick_error, max_relay_packets>>

varsDuty == <<duty_cycle_manager, downlink_callback_tx, downlinks, consumed>>

varsHop == <<hop_fragments, hop2hop_receive_buffers, hop_sends, hop_packets, hop_combined>>

varsGateways == <<gateway_ids, retry, gateway_pc, shutdown, requests, published, floods>>

varsShutdown == <<generator, agents, notify_version, condition_channel,
                  conditions_sent, conditions_received, controller_pc, wait_elapsed,
                  wait_ended_by, tasks, flood_tasks>>

varsMqtt == <<runtime_handles, mqtt_requests, stop_signal, event_loop, mqtt_published,
              enqueues, error_counter, last_error, error_times, connection_errors,
              error_task, mqtt_shutdown>>

varsPace == <<since_flood, flood_gap, router_floods, pace_followed>>

varsLocks == <<mutexes, lock_waiters, lock_tasks>>

vars == <<now, reset_timeout, last_op, varsUplink, varsCache, varsRouter, varsDuty,
          varsHop, varsGateways, varsShutdown, varsMqtt, varsPace, varsLocks, varsLocks>>

(***************************************************************************)
(* Generic helpers                                                         *)
(***************************************************************************)
None == "None"

\* The long-running tasks start_app spawns that the shutdown waits for.
TaskNames ==
    {"router", "queue_collector", "cache_sweeper", "duty_cycle_collector",
     "bundle_processor", "gateway_manager", "uplink_processor"}

\* A task as it is spawned: at the first await of its loop, with the items
\* its work channel or queue will still hand to it.
SpawnedTask(t) ==
    [pc |-> CASE t = "gateway_manager" -> "request"
              [] t = "uplink_processor" -> "recv"
              [] OTHER -> "select",
     inputs |-> IF t \in {"cache_sweeper", "gateway_manager"} THEN 0 ELSE MaxTaskInputs]

\* The router has spawned no flooding task yet.
NoFloodTasks ==
    [emitted |-> <<>>, spawned |-> {}, lock_queue |-> <<>>,
     handed |-> [g \in {"gw1", "gw2"} |-> <<>>]]

\* The ids under which the shutdown agents and their clones are told apart.
AgentIds == 1..MaxAgents

\* An agent that has not been generated yet.
UnbornAgent ==
    [state |-> "unborn", shutdown |-> FALSE, seen |-> 0, awaiting |-> FALSE,
     returns |-> 0, at_notify |-> "absent"]

\* The record kept in last_op.
Op(op, frame, res, receivers) ==
    [op |-> op, frame |-> frame, res |-> res, receivers |-> receivers]

Min(S) == CHOOSE x \in S : \A y \in S : x <= y

RECURSIVE Digits(_)
\* Decimal rendering of a number by format!("{}", n), as a sequence of digits.
Digits(n) == IF n < 10 THEN <<n>> ELSE Digits(n \div 10) \o <<n % 10>>

(***************************************************************************)
(* Dedup caches: MessageCache::insert and PacketCache::insert share one    *)
(* body; they differ in the key only.                                      *)
(***************************************************************************)
\* A cache insert whose timeout comparison is inverted.
CacheInsertInverted(cache, key, t, reset) ==
    IF key \in DOMAIN cache
    THEN IF t - cache[key] >= TTL
         THEN [res |-> "NotTimedOut",
               cache |-> IF reset THEN [cache EXCEPT ![key] = t] ELSE cache]
         ELSE [res |-> "Ok", cache |-> [cache EXCEPT ![key] = t]]
    ELSE [res |-> "Ok", cache |-> (key :> t) @@ cache]

\* A cache insert that reports Ok for a timed out entry but keeps its old
\* timestamp.
CacheInsertKeepsStale(cache, key, t, reset) ==
    IF key \in DOMAIN cache
    THEN IF t - cache[key] < TTL
         THEN [res |-> "NotTimedOut",
               cache |-> IF reset THEN [cache EXCEPT ![key] = t] ELSE cache]
         ELSE [res |-> "Ok", cache |-> cache]
    ELSE [res |-> "Ok", cache |-> (key :> t) @@ cache]

\* A cache insert that resets the timestamp of every entry it refuses.
CacheInsertAlwaysResets(cache, key, t, reset) ==
    IF key \in DOMAIN cache
    THEN IF t - cache[key] < TTL
         THEN [res |-> "NotTimedOut", cache |-> [cache EXCEPT ![key] = t]]
         ELSE [res |-> "Ok", cache |-> [cache EXCEPT ![key] = t]]
    ELSE [res |-> "Ok", cache |-> (key :> t) @@ cache]

\* insert(): Occupied and within the timeout -> Err(NotTimedOut), the stored
\* timestamp reset when reset_timeout; Occupied and timed out, or Vacant ->
\* store Utc::now() and Ok.
CacheInsert(cache, key, t, reset) ==
    IF key \in DOMAIN cache
    THEN IF t - cache[key] < TTL
         THEN [res |-> "NotTimedOut",
               cache |-> IF reset THEN [cache EXCEPT ![key] = t] ELSE cache]
         ELSE [res |-> "Ok", cache |-> [cache EXCEPT ![key] = t]]
    ELSE [res |-> "Ok", cache |-> (key :> t) @@ cache]

\* remove_expired_messages / remove_expired_packets: retain(now - ts < timeout).
RemoveExpired(cache, t) ==
    LET keep == {k \in DOMAIN cache : t - cache[k] < TTL}
    IN  [k \in keep |-> cache[k]]

\* MessageCache::insert key: format!("{}{}{}", source, timestamp, fragment_id),
\* hashed with SHA3-256 (taken as injective on the rendered string).
\* fragment.index() is None for Fragment::No, and unwrap_or(u8::MAX) is used.
MessageCacheKey(source, timestamp, fragment) ==
    LET id == IF fragment.yes THEN fragment.index ELSE U8Max
    IN  Digits(source) \o Digits(timestamp) \o Digits(id)

(***************************************************************************)
(* Wire frames and parse_phy_payload                                       *)
(***************************************************************************)
\* EndDeviceIds: the managed (local) ones and one that is not managed here.
LocalIds == {7}
Destinations == LocalIds \cup {9}

\* A frame as its wire fields: MHDR tag bits, message type byte, destination,
\* source, timestamp, the fragment flag with index and total, and the payload.
Frame(tag, type, dst, src, ts, isf, idx, tot, pl) ==
    [tag |-> tag, type |-> type, dst |-> dst, src |-> src, ts |-> ts,
     is_fragment |-> isf, index |-> idx, total |-> tot, payload |-> pl]

\* The (source, timestamp) pairs of the modelled bundles.
BundleIds == {<<1, 11>>}

\* Payload bytes of fragment idx of the bundle from src.
FragmentPayload(src, idx) == <<10 * src + idx>>

WholeFrames ==
    {Frame("proprietary", 0, d, b[1], b[2], FALSE, 0, 0, <<b[1]>>) :
        d \in Destinations, b \in BundleIds}

FragmentFrames ==
    {Frame("proprietary", 0, d, 1, 11, TRUE, i, t, FragmentPayload(1, i)) :
        d \in LocalIds, i \in 0..(MaxTotal - 1), t \in 1..MaxTotal}

OtherFrames ==
    {Frame(tt[1], tt[2], d, 1, 11, FALSE, 0, 0, <<1>>) :
        d \in LocalIds, tt \in {<<"other", 0>>, <<"proprietary", 1>>}}

UplinkFrames == WholeFrames \cup FragmentFrames \cup OtherFrames

\* parse_phy_payload: MAC header, message type, then parse_bundle with
\* parse_convergence_fragment (index >= total is rejected) or parse_announcement.
ParsePhyPayload(f) ==
    IF f.tag # "proprietary" THEN [ok |-> FALSE, err |-> "NoProprietaryTag"]
    ELSE IF f.type \notin {0, 1} THEN [ok |-> FALSE, err |-> "UnknownMsgType"]
    ELSE IF f.type = 1 THEN [ok |-> TRUE, msg_type |-> "Announcement"]
    ELSE IF f.is_fragment /\ f.index >= f.total
         THEN [ok |-> FALSE, err |-> "FragmentIndexBiggerThanTotal"]
    ELSE [ok |-> TRUE, msg_type |-> "Bundle",
          destination |-> f.dst, source |-> f.src, timestamp |-> f.ts,
          fragment |-> IF f.is_fragment
                       THEN [yes |-> TRUE, index |-> f.index, total_amount |-> f.total]
                       ELSE [yes |-> FALSE, index |-> 0, total_amount |-> 0],
          payload |-> f.payload]

(***************************************************************************)
(* BundleReceiveBuffer (receive_buffers/bundle.rs)                         *)
(***************************************************************************)
EmptyMap == [x \in {} |-> 0]

\* BundleReceiveBuffer::new
NewBundleReceiveBuffer(destination, source, timestamp, total_fragments) ==
    [destination |-> destination, source |-> source, timestamp |-> timestamp,
     total_fragments |-> total_fragments, received_fragments |-> EmptyMap]

\* BundleReceiveBuffer::process_payload
ProcessPayload(buf, fragment, payload) ==
    IF ~fragment.yes THEN [ok |-> FALSE, err |-> "NoFragment", buf |-> buf]
    ELSE IF fragment.total_amount # buf.total_fragments
         THEN [ok |-> FALSE, err |-> "FragmentAmountDoesNotMatch", buf |-> buf]
    ELSE IF fragment.index \in DOMAIN buf.received_fragments
         THEN [ok |-> FALSE, err |-> "IndexAlreadyReceived", buf |-> buf]
    ELSE [ok |-> TRUE, err |-> None,
          buf |-> [buf EXCEPT !.received_fragments =
                                  (fragment.index :> payload) @@ @]]

\* missing_fragments() that reports completion one fragment early.
MissingFragmentsOffByOne(buf) ==
    IF Cardinality(DOMAIN buf.received_fragments) + 1 < buf.total_fragments
    THEN [some |-> TRUE,
          n |-> buf.total_fragments - Cardinality(DOMAIN buf.received_fragments)]
    ELSE [some |-> FALSE, n |-> 0]

\* BundleReceiveBuffer::missing_fragments
MissingFragments(buf) ==
    IF Cardinality(DOMAIN buf.received_fragments) < buf.total_fragments
    THEN [some |-> TRUE,
          n |-> buf.total_fragments - Cardinality(DOMAIN buf.received_fragments)]
    ELSE [some |-> FALSE, n |-> 0]

RECURSIVE ValuesInKeyOrder(_)
\* BTreeMap::values_mut() appended in ascending key order.
ValuesInKeyOrder(m) ==
    IF DOMAIN m = {} THEN <<>>
    ELSE LET k == Min(DOMAIN m)
         IN  m[k] \o ValuesInKeyOrder([j \in DOMAIN m \ {k} |-> m[j]])

\* BundleReceiveBuffer::combine
Combine(buf) ==
    IF MissingFragments(buf).some THEN [ok |-> FALSE, err |-> "FragmentsMissing"]
    ELSE [ok |-> TRUE,
          bundle |-> [destination |-> buf.destination, source |-> buf.source,
                      timestamp |-> buf.timestamp,
                      payload |-> ValuesInKeyOrder(buf.received_fragments)]]

\* send_combined_bundle_via_channel: broadcast when a websocket client is
\* connected, drop the bundle otherwise.
SendCombinedBundleViaChannel(ws, receivers, bundle) ==
    IF receivers > 0 THEN Append(ws, bundle) ELSE ws

(***************************************************************************)
(* uplink_processor_task (uplink_processing.rs)                            *)
(***************************************************************************)
\* A channel that reports success and loses the item.
TrySendLoses(chan, item) ==
    IF Len(chan) >= ChannelCapacity THEN [ok |-> FALSE, chan |-> chan]
    ELSE [ok |-> TRUE, chan |-> chan]

\* mpsc::Sender::try_send on a bounded channel: Err(Full) without waiting when
\* the channel holds its capacity, the item appended otherwise.
TrySend(chan, item) ==
    IF Len(chan) >= ChannelCapacity THEN [ok |-> FALSE, chan |-> chan]
    ELSE [ok |-> TRUE, chan |-> Append(chan, item)]

\* An uplink's tx_info with LoRa modulation parameters.
LoraTxInfo(bandwidth, spreading_factor) ==
    [lora |-> TRUE, bandwidth |-> bandwidth, spreading_factor |-> spreading_factor]

\* A tx_info that is absent or carries no LoRa modulation parameters.
NoLoraTxInfo == [lora |-> FALSE, bandwidth |-> 0, spreading_factor |-> 0]

\* DataRate::from_raw_bandwidth_and_spreading_factor; None for its error.
DataRateFromRawBandwidthAndSpreadingFactor(bandwidth, spreading_factor) ==
    CASE bandwidth = 125000 /\ spreading_factor = 12 -> "Dr0"
      [] bandwidth = 125000 /\ spreading_factor = 11 -> "Dr1"
      [] bandwidth = 125000 /\ spreading_factor = 10 -> "Dr2"
      [] bandwidth = 125000 /\ spreading_factor = 9 -> "Dr3"
      [] bandwidth = 125000 /\ spreading_factor = 8 -> "Dr4"
      [] bandwidth = 125000 /\ spreading_factor = 7 -> "Dr5"
      [] bandwidth = 250000 /\ spreading_factor = 7 -> "Dr6"
      [] OTHER -> None

\* The data rate observed on an uplink: None when
\* extract_modulation_info_from_uplink_tx_info finds no LoRa modulation
\* parameters or the parameters are no data rate.
ObservedDataRate(tx_info) ==
    IF ~tx_info.lora THEN None
    ELSE DataRateFromRawBandwidthAndSpreadingFactor(tx_info.bandwidth,
                                                    tx_info.spreading_factor)

\* The tx_infos of the uplinks offered to the dispatcher: one with the
\* parameters of Dr5 and one without modulation parameters.
TxInfos == {LoraTxInfo(125000, 7), NoLoraTxInfo}

\* The uplinks offered to the dispatcher: a frame, what its tx_info yields and
\* the receiver_count() of bundles_to_ws when it is processed. The tx_info is
\* read for frames that are relayed only and the receiver count for frames
\* that are delivered only, so the other value is fixed there.
UplinkInputs ==
    {<<f, tx, 0>> : f \in {g \in UplinkFrames : g.dst \notin LocalIds}, tx \in TxInfos}
    \cup {<<f, LoraTxInfo(125000, 7), r>> :
            f \in {g \in UplinkFrames : g.dst \in LocalIds}, r \in {0, 1}}

Handled(res) == res \notin {"parse_error", "panic", "duplicate"}

\* The local branch for a fragment: get or create the receive buffer, process
\* the payload, and combine once no fragment is missing.
DispatchFragment(p, map, ws, receivers) ==
    LET key == <<p.source, p.timestamp>>
        buf == IF key \in DOMAIN map THEN map[key]
               ELSE NewBundleReceiveBuffer(p.destination, p.source, p.timestamp,
                                           p.fragment.total_amount)
        pr  == ProcessPayload(buf, p.fragment, p.payload)
        without == [k \in DOMAIN map \ {key} |-> map[k]]
    IN  IF ~pr.ok
        THEN [res |-> "process_error", map |-> (key :> buf) @@ map, ws |-> ws]
        ELSE IF MissingFragments(pr.buf).some
        THEN [res |-> "buffered", map |-> (key :> pr.buf) @@ map, ws |-> ws]
        ELSE LET c == Combine(pr.buf)
             IN  IF c.ok
                 THEN [res |-> "combined", map |-> without,
                       ws |-> SendCombinedBundleViaChannel(ws, receivers, c.bundle)]
                 ELSE [res |-> "combine_error", map |-> without, ws |-> ws]

\* One iteration of the while-let loop of uplink_processor_task for the uplink
\* (f, tx), with receivers the receiver_count() of bundles_to_ws at that
\* moment: the new values of the dispatcher's state and the outcome.
Dispatch(f, tx_info, receivers) ==
    LET p == ParsePhyPayload(f)
        tx == ObservedDataRate(tx_info)
        same == [res |-> "parse_error", cache |-> message_cache,
                 map |-> bundle_receive_buffer_map, relay |-> relay_tx,
                 ws |-> bundles_to_ws, task |-> "running"]
    IN  IF ~p.ok THEN same
        ELSE IF p.msg_type = "Announcement"
        THEN [same EXCEPT !.res = "panic", !.task = "panicked"]
        ELSE
        LET ins == CacheInsert(message_cache,
                               MessageCacheKey(p.source, p.timestamp, p.fragment),
                               now, reset_timeout)
            seen == [same EXCEPT !.cache = ins.cache]
        IN  IF ins.res # "Ok" THEN [seen EXCEPT !.res = "duplicate"]
            ELSE IF p.destination \notin end_device_ids
            THEN IF tx = None THEN [seen EXCEPT !.res = "no_data_rate"]
                 ELSE LET sent == TrySend(relay_tx, [packet |-> p, data_rate |-> tx])
                      IN  IF ~sent.ok THEN [seen EXCEPT !.res = "relay_channel_full"]
                          ELSE [seen EXCEPT !.res = "relayed", !.relay = sent.chan]
            ELSE IF p.fragment.yes
            THEN LET d == DispatchFragment(p, bundle_receive_buffer_map, bundles_to_ws, receivers)
                 IN  [seen EXCEPT !.res = d.res, !.map = d.map, !.ws = d.ws]
            ELSE [seen EXCEPT !.res = "delivered",
                              !.ws = SendCombinedBundleViaChannel(
                                         bundles_to_ws, receivers,
                                         [destination |-> p.destination, source |-> p.source,
                                          timestamp |-> p.timestamp, payload |-> p.payload])]

UplinkProcess(f, tx_info, receivers) ==
    /\ uplink_task = "running"
    /\ uplinks < MaxUplinks
    /\ uplink_tx_info' = tx_info
    /\ LET d == Dispatch(f, tx_info, receivers)
       IN  /\ message_cache' = d.cache
           /\ bundle_receive_buffer_map' = d.map
           /\ relay_tx' = d.relay
           /\ bundles_to_ws' = d.ws
           /\ uplink_task' = d.task
           /\ uplinks' = uplinks + 1
           /\ last_op' = Op("uplink", f, d.res, receivers)
           /\ handled_at' = IF Handled(d.res) THEN (f :> now) @@ handled_at
                            ELSE handled_at
    /\ UNCHANGED <<now, reset_timeout, varsMqtt, varsPace, varsLocks, varsShutdown, varsHop, varsGateways, end_device_ids, varsCache, varsRouter, varsDuty>>

\* message_cache::cache_clean_task
CleanMessageCache ==
    /\ message_cache' = RemoveExpired(message_cache, now)
    /\ UNCHANGED <<now, reset_timeout, varsMqtt, varsPace, varsLocks, varsShutdown, varsHop, varsGateways, end_device_ids, bundle_receive_buffer_map,
                   relay_tx, bundles_to_ws, uplink_task, uplinks, handled_at,
                   uplink_tx_info,
                   last_op, varsCache, varsRouter, varsDuty>>

\* The wall clock advances by one unit.
TickUplink ==
    /\ now < MaxTime
    /\ now' = now + 1
    /\ UNCHANGED <<reset_timeout, varsMqtt, varsPace, varsLocks, varsShutdown, varsHop, varsGateways, last_op, varsUplink, varsCache, varsRouter, varsDuty>>

\* The state after construction (app_start.rs), with empty caches and queues.
InitCache ==
    /\ packet_cache = EmptyMap
    /\ inserts = 0
    /\ accepted = EmptyMap

InitRouterQueues ==
    /\ bundle_send_buffer_tx = <<>>
    /\ relay_packet_queue = <<>>
    /\ bundle_send_buffer_queue = <<>>
    /\ bundles = 0
    /\ router_pc = "sleep"
    /\ skip_delay = FALSE
    /\ relay_empty_at_check = FALSE
    /\ slept = FALSE
    /\ tick_error = FALSE

\* QueueManager::new with the configured size of the relay queue.
InitRouter ==
    /\ InitRouterQueues
    /\ max_relay_packets = MaxRelayPackets

InitDuty ==
    /\ duty_cycle_manager = EmptyMap
    /\ downlink_callback_tx = <<>>
    /\ downlinks = 0
    /\ consumed = <<>>

InitHop ==
    /\ hop_fragments = <<>>
    /\ hop2hop_receive_buffers = EmptyMap
    /\ hop_sends = 0
    /\ hop_packets = 0
    /\ hop_combined = None

InitGateways ==
    /\ gateway_ids = {}
    /\ retry = 0
    /\ gateway_pc = "request"
    /\ shutdown = None
    /\ requests = 0
    /\ published = {}
    /\ floods = 0

\* The state ShutdownGenerator::new leaves: the three channels exist, no agent
\* has been generated and there is no controller yet.
InitShutdown ==
    /\ generator = TRUE
    /\ agents = [a \in AgentIds |-> UnbornAgent]
    /\ notify_version = 0
    /\ condition_channel = <<>>
    /\ conditions_sent = <<>>
    /\ conditions_received = <<>>
    /\ controller_pc = "generator"
    /\ wait_elapsed = 0
    /\ wait_ended_by = None
    /\ tasks = [t \in TaskNames |-> SpawnedTask(t)]
    /\ flood_tasks = NoFloodTasks

\* The handles of the runtime: the clone in AppState, which the flooding tasks
\* enqueue on, and the clone handed to runtime_shutdown_task.
RuntimeHandles == {"app_state", "shutdown_task"}

\* Runtime::new_with_mqtt_options: the event loop is spawned, no handle has
\* received a stop; mqtt_connection_error_task waits on the broadcast channel.
InitMqtt ==
    /\ runtime_handles = [h \in RuntimeHandles |-> FALSE]
    /\ mqtt_requests = <<>>
    /\ stop_signal = 0
    /\ event_loop = "running"
    /\ mqtt_published = 0
    /\ enqueues = 0
    /\ error_counter = 0
    /\ last_error = 0
    /\ error_times = <<>>
    /\ connection_errors = 0
    /\ error_task = "running"
    /\ mqtt_shutdown = None

\* The tokio mutexes of AppState: the configuration, the two queues of the
\* queue manager, the packet cache, the duty cycle manager and the gateway ids.
Mutexes ==
    {"configuration", "relay_packet_queue", "bundle_send_buffer_queue", "packet_cache",
     "duty_cycle_manager", "gateway_ids"}

\* The tasks that lock them.
LockTasks ==
    {"router", "flooding", "queue_collector", "cache_sweeper", "duty_cycle_collector",
     "gateway_ids_manager", "persistence"}

\* Every mutex is free and no task is in a round.
NoLocks ==
    /\ mutexes = [m \in Mutexes |-> None]
    /\ lock_waiters = [m \in Mutexes |-> <<>>]
    /\ lock_tasks = [t \in LockTasks |-> <<>>]

\* No flood has been started; the pace of the router is not followed.
NoPace ==
    /\ since_flood = 0
    /\ flood_gap = 0
    /\ router_floods = 0
    /\ pace_followed = FALSE

InitDispatcher ==
    /\ now = 0
    /\ message_cache = EmptyMap
    /\ end_device_ids = LocalIds
    /\ bundle_receive_buffer_map = EmptyMap
    /\ relay_tx = <<>>
    /\ bundles_to_ws = <<>>
    /\ uplink_task = "running"
    /\ uplinks = 0
    /\ last_op = Op(None, None, None, 0)
    /\ handled_at = EmptyMap
    /\ uplink_tx_info = NoLoraTxInfo

InitUplink ==
    /\ reset_timeout \in BOOLEAN
    /\ InitDispatcher /\ InitCache /\ InitRouter /\ InitDuty /\ InitHop /\ InitMqtt /\ NoPace /\ NoLocks /\ InitGateways /\ InitShutdown

NextUplink ==
    \/ \E u \in UplinkInputs : UplinkProcess(u[1], u[2], u[3])
    \/ CleanMessageCache
    \/ TickUplink

SpecUplink == InitUplink /\ [][NextUplink]_vars

(***************************************************************************)
(* Properties of the uplink dispatcher                                     *)
(***************************************************************************)
\* The frame was handled (it passed the dedup insert) less than TTL ago.
HandledWithinTTL(f) == f \in DOMAIN handled_at /\ now - handled_at[f] < TTL

\* C1: when the same frame is offered to the uplink dispatcher again less
\* than the dedup TTL after an offer of it was handled, the new offer is
\* dropped as a duplicate: no receive buffer is touched, nothing is delivered
\* to the websocket clients and nothing is enqueued for relay.
C1_SecondOfferDropped ==
    [][(uplinks' = uplinks + 1 /\ HandledWithinTTL(last_op'.frame))
       => /\ last_op'.res = "duplicate"
          /\ UNCHANGED <<bundle_receive_buffer_map, relay_tx, bundles_to_ws>>]_vars

\* A frame was offered a second time within the TTL of its handling and
\* dropped, the first offer having been relayed or delivered.
C1_Witness ==
    /\ last_op.op = "uplink"
    /\ last_op.res = "duplicate"
    /\ last_op.frame \in WholeFrames
    /\ HandledWithinTTL(last_op.frame)
    /\ Len(relay_tx) + Len(bundles_to_ws) = 1
    /\ uplinks = 2

RECURSIVE PayloadsInIndexOrder(_, _)
\* The payloads of the fragments 0 .. n-1 of the bundle from src, concatenated.
PayloadsInIndexOrder(src, n) ==
    IF n = 0 THEN <<>>
    ELSE PayloadsInIndexOrder(src, n - 1) \o FragmentPayload(src, n - 1)

\* The fragment indices buffered for the bundle (source, timestamp).
ReceivedIndices(map, key) ==
    IF key \in DOMAIN map THEN DOMAIN map[key].received_fragments ELSE {}

\* C34: an uplink that the dispatcher recorded in the dedup cache is delivered
\* to the websocket clients, put into a receive buffer or reassembled, or put
\* on the relay channel; it is never recorded and then dropped.
C34_RecordedUplinkKept ==
    last_op.op = "uplink" /\ Handled(last_op.res)
        => last_op.res \in {"delivered", "buffered", "combined", "relayed"}

\* C10: a fragment that the receive buffer accepts completes the bundle
\* exactly when, with it, every index 0 .. total_fragments - 1 has been
\* received, whatever the order of arrival; the buffer is then removed and the
\* bundle handed to the websocket clients carries the fragment payloads
\* concatenated in index order.
C10_CombinedExactlyWhenComplete ==
    [][(uplinks' = uplinks + 1
          /\ last_op'.res \in {"buffered", "combined", "combine_error"})
       => LET f == last_op'.frame
              key == <<f.src, f.ts>>
              have == ReceivedIndices(bundle_receive_buffer_map, key) \cup {f.index}
          IN  /\ last_op'.res = "combined" <=> have = 0..(f.total - 1)
              /\ last_op'.res = "buffered" <=> have # 0..(f.total - 1)
              /\ last_op'.res = "combined" =>
                   /\ key \notin DOMAIN bundle_receive_buffer_map'
                   /\ last_op'.receivers > 0 =>
                        bundles_to_ws' =
                            Append(bundles_to_ws,
                                   [destination |-> f.dst, source |-> f.src,
                                    timestamp |-> f.ts,
                                    payload |-> PayloadsInIndexOrder(f.src, f.total)])]_vars

\* A bundle of at least two fragments was combined and delivered, its
\* fragment 0 having arrived last.
C10_Witness ==
    /\ last_op.op = "uplink"
    /\ last_op.res = "combined"
    /\ last_op.frame.total >= 2
    /\ last_op.frame.index = 0
    /\ Len(bundles_to_ws) = 1
    /\ bundles_to_ws[1].payload =
           PayloadsInIndexOrder(last_op.frame.src, last_op.frame.total)
    /\ Len(bundles_to_ws[1].payload) = last_op.frame.total

(***************************************************************************)
(* PacketCache (packet_cache.rs)                                           *)
(***************************************************************************)
\* PacketCache::insert(packet) at wall clock time now. The cache is keyed by
\* the SHA3-256 digest of the frame's bytes; the digest is taken as injective
\* and the cache of the model is keyed by the frame.
PacketCacheInsert(frame) == CacheInsert(packet_cache, frame, now, reset_timeout)

\* The frames offered to the packet cache directly.
CacheFrames ==
    {Frame("proprietary", 0, 9, src, 11, FALSE, 0, 0, <<src>>) : src \in 1..2}

\* A call of PacketCache::insert(frame).
PacketCacheInsertCall(frame) ==
    /\ inserts < MaxInserts
    /\ inserts' = inserts + 1
    /\ LET ins == PacketCacheInsert(frame)
       IN  /\ packet_cache' = ins.cache
           /\ accepted' = IF ins.res = "Ok" THEN (frame :> now) @@ accepted ELSE accepted
           /\ last_op' = Op("insert", frame, ins.res, 0)
    /\ UNCHANGED <<now, reset_timeout, varsMqtt, varsPace, varsLocks, varsShutdown, varsHop, varsGateways, varsUplink, varsRouter, varsDuty>>

\* packet_cache::cache_clean_task: remove_expired_packets
CleanPacketCache ==
    /\ packet_cache' = RemoveExpired(packet_cache, now)
    /\ UNCHANGED <<now, reset_timeout, varsMqtt, varsPace, varsLocks, varsShutdown, varsHop, varsGateways, last_op, inserts, accepted, varsUplink, varsRouter, varsDuty>>

\* The wall clock advances by one unit.
TickCache ==
    /\ now < MaxTime
    /\ now' = now + 1
    /\ UNCHANGED <<reset_timeout, varsMqtt, varsPace, varsLocks, varsShutdown, varsHop, varsGateways, last_op, varsUplink, varsCache, varsRouter, varsDuty>>

InitCacheSpec ==
    /\ reset_timeout \in BOOLEAN
    /\ InitDispatcher /\ InitCache /\ InitRouter /\ InitDuty /\ InitHop /\ InitMqtt /\ NoPace /\ NoLocks /\ InitGateways /\ InitShutdown

NextCache ==
    \/ \E frame \in CacheFrames : PacketCacheInsertCall(frame)
    \/ CleanPacketCache
    \/ TickCache

SpecCache == InitCacheSpec /\ [][NextCache]_vars

\* C2: PacketCache::insert(x) returns NotTimedOut when an entry for x was
\* stored less than TTL ago (the stored time is kept, or set to now when
\* reset_timeout is configured); when x is absent or its entry is at least
\* TTL old it returns Ok and stores the current time. No other entry changes.
C2_InsertResult ==
    [][inserts' = inserts + 1
       => LET x == last_op'.frame
              recent == x \in DOMAIN packet_cache /\ now - packet_cache[x] < TTL
          IN  /\ last_op'.op = "insert"
              /\ recent => /\ last_op'.res = "NotTimedOut"
                           /\ packet_cache'[x] = IF reset_timeout THEN now
                                                 ELSE packet_cache[x]
              /\ ~recent => /\ last_op'.res = "Ok"
                            /\ packet_cache'[x] = now
              /\ DOMAIN packet_cache' = DOMAIN packet_cache \cup {x}
              /\ \A y \in DOMAIN packet_cache \ {x} : packet_cache'[y] = packet_cache[y]]_vars

\* An insert was refused because the frame had been stored less than TTL ago,
\* at an earlier time.
C2_Witness ==
    /\ last_op.op = "insert"
    /\ last_op.res = "NotTimedOut"
    /\ inserts >= 2
    /\ now > 0
    /\ last_op.frame \in DOMAIN packet_cache
    /\ ~reset_timeout
    /\ packet_cache[last_op.frame] < now

(***************************************************************************)
(* BundleSendBuffer (send_buffers/bundle.rs)                               *)
(***************************************************************************)
\* The smallest n with n * d >= len: (len as f64 / d as f64).ceil().
CeilDiv(len, d) == (len + d - 1) \div d

\* The elements lo+1 .. hi of a sequence.
Slice(seq, lo, hi) == SubSeq(seq, lo + 1, hi)

\* A packet of the protocol (LoRaWanProtocol with MessageType::Bundle).
BundlePacket(destination, source, timestamp, fragment, payload) ==
    [ok |-> TRUE, msg_type |-> "Bundle", destination |-> destination,
     source |-> source, timestamp |-> timestamp, fragment |-> fragment,
     payload |-> payload]

\* convert_to_lorawan_phy_payload: the proprietary tag, the message type and
\* the fields of the packet in wire order.
ConvertToLorawanPhyPayload(p) ==
    Frame("proprietary", 0, p.destination, p.source, p.timestamp,
          p.fragment.yes, p.fragment.index, p.fragment.total_amount, p.payload)

\* BundleSendBuffer::new
NewBundleSendBuffer(destination, source, timestamp, payload) ==
    LET buf(total, fixed) ==
            [ok |-> TRUE,
             buf |-> [destination |-> destination, source |-> source,
                      timestamp |-> timestamp, fragment_index |-> 0,
                      total_fragments |-> total, fixed_bytes_per_fragment |-> fixed,
                      payload_index |-> 0, payload |-> payload]]
    IN  IF payload = <<>> THEN [ok |-> FALSE, err |-> "EmptyPayload"]
        ELSE IF MaxUsablePayloadSize >= FixedBytesWithoutFragmentation + Len(payload)
        THEN buf(1, 0)
        ELSE IF FixedBytesPerFragment >= MaxUsablePayloadSize
        THEN [ok |-> FALSE, err |-> "NotEnoughBytesPerFragmentForOnePayload"]
        ELSE IF Len(payload) > MaxFragments * MaxUsablePayloadSize
        THEN [ok |-> FALSE, err |-> "PayloadTooBig"]
        ELSE LET total == CeilDiv(Len(payload), MaxUsablePayloadSize - FixedBytesPerFragment)
             IN  IF total > MaxFragments
                 THEN [ok |-> FALSE, err |-> "NotEnoughBytesPerFragment"]
                 ELSE buf(total, FixedBytesPerFragment)

\* SendBuffer::remaining_fragments().is_none(), the buffer's is_empty().
IsEmpty(buf) == ~(buf.fragment_index < buf.total_fragments)

\* SendBuffer::next_payload, the buffer's next_packet(data_rate): the next
\* packet and the advanced buffer, or the error.
NextPacket(buf) ==
    IF buf.total_fragments = 1
    THEN [ok |-> TRUE,
          buf |-> [buf EXCEPT !.fragment_index = @ + 1],
          packet |-> BundlePacket(buf.destination, buf.source, buf.timestamp,
                                  [yes |-> FALSE, index |-> 0, total_amount |-> 0],
                                  buf.payload)]
    ELSE IF buf.fragment_index > buf.total_fragments - 1
    THEN [ok |-> FALSE, err |-> "NoRemainingFragments", buf |-> buf]
    ELSE
    LET per == MaxUsablePayloadSize - buf.fixed_bytes_per_fragment
        end == IF buf.fragment_index < buf.total_fragments - 1
               THEN buf.payload_index + per ELSE Len(buf.payload)
    IN  IF end > Len(buf.payload)
        THEN [ok |-> FALSE, err |-> "FragmentCountCalculationWrong",
              buf |-> [buf EXCEPT !.payload_index = Len(buf.payload)]]
        ELSE [ok |-> TRUE,
              buf |-> [buf EXCEPT !.fragment_index = @ + 1, !.payload_index = end],
              packet |-> BundlePacket(buf.destination, buf.source, buf.timestamp,
                                      [yes |-> TRUE, index |-> buf.fragment_index,
                                       total_amount |-> buf.total_fragments],
                                      Slice(buf.payload, buf.payload_index, end))]

(***************************************************************************)
(* bundles_processor_task (bundle_processing.rs)                           *)
(***************************************************************************)
\* The payload bytes 1 .. n.
Payload(n) == [i \in 1..n |-> i]

\* The bundles a websocket client hands in, as (timestamp, payload length):
\* one that needs fragmenting and one that does not.
WsBundles ==
    {[destination |-> 9, source |-> 7, timestamp |-> b[1], payload |-> Payload(b[2])] :
        b \in {<<21, MaxPayloadLen>>, <<22, 1>>}}

\* One iteration of the loop of bundles_processor_task for the bundle:
\* BundleSendBuffer::try_from, then try_send to the queue collector.
BundlesProcess(bundle) ==
    /\ bundles < MaxBundles
    /\ bundles' = bundles + 1
    /\ LET b == NewBundleSendBuffer(bundle.destination, bundle.source,
                                    bundle.timestamp, bundle.payload)
       IN  bundle_send_buffer_tx' =
               IF b.ok THEN TrySend(bundle_send_buffer_tx, b.buf).chan
               ELSE bundle_send_buffer_tx
    /\ UNCHANGED <<now, reset_timeout, varsMqtt, varsPace, varsLocks, varsShutdown, varsHop, varsGateways, varsDuty, last_op, varsUplink, varsCache,
                   relay_packet_queue, bundle_send_buffer_queue, router_pc, skip_delay,
                   relay_empty_at_check, slept, tick_error,
                   max_relay_packets>>

(***************************************************************************)
(* QueueManager::collect_send_items_task (packet_queue_manager.rs)         *)
(***************************************************************************)
\* A collector that compares the queue length with > instead of >=.
QueuePushOverfull(queue, max, item) ==
    IF Len(queue) > max THEN queue ELSE Append(queue, item)

\* if lock.len() >= max { warn!(..); continue } lock.push(item)
QueuePush(queue, max, item) ==
    IF Len(queue) >= max THEN queue ELSE Append(queue, item)

\* The select! arm Some(relay_packet) = relay_rx.recv()
CollectRelay ==
    /\ relay_tx # <<>>
    /\ relay_tx' = Tail(relay_tx)
    /\ relay_packet_queue' = QueuePush(relay_packet_queue, max_relay_packets, Head(relay_tx))
    /\ last_op' = Op("collect_relay", None,
                      IF Len(relay_packet_queue) >= max_relay_packets
                      THEN "dropped" ELSE "queued", 0)
    /\ UNCHANGED <<now, reset_timeout, varsMqtt, varsPace, varsLocks, varsShutdown, varsHop, varsGateways, varsDuty, message_cache, end_device_ids,
                   bundle_receive_buffer_map, bundles_to_ws, uplink_task, uplinks,
                   handled_at, uplink_tx_info, varsCache, bundle_send_buffer_tx,
                   bundle_send_buffer_queue, bundles, router_pc, skip_delay,
                   relay_empty_at_check, slept, tick_error,
                   max_relay_packets>>

\* The select! arm Some(bundle_send_buffer) = bundle_send_buffer_rx.recv()
CollectBundleSendBuffer ==
    /\ bundle_send_buffer_tx # <<>>
    /\ bundle_send_buffer_tx' = Tail(bundle_send_buffer_tx)
    /\ bundle_send_buffer_queue' =
           QueuePush(bundle_send_buffer_queue, MaxBundleBuffers, Head(bundle_send_buffer_tx))
    /\ last_op' = Op("collect_bundle", None,
                      IF Len(bundle_send_buffer_queue) >= MaxBundleBuffers
                      THEN "dropped" ELSE "queued", 0)
    /\ UNCHANGED <<now, reset_timeout, varsMqtt, varsPace, varsLocks, varsShutdown, varsHop, varsGateways, varsDuty, varsUplink, varsCache, relay_packet_queue,
                   bundles, router_pc, skip_delay, relay_empty_at_check, slept, tick_error,
                   max_relay_packets>>

(***************************************************************************)
(* The flooding router (routing.rs, routing/flooding.rs)                   *)
(***************************************************************************)
\* A pop that removes the first element.
VecPopFront(vec) ==
    IF vec = <<>> THEN [some |-> FALSE, rest |-> vec]
    ELSE [some |-> TRUE, item |-> vec[1], rest |-> Tail(vec)]

\* A Vec::pop() that never yields an element.
VecPopNone(vec) == [some |-> FALSE, rest |-> vec]

\* Vec::pop(): removes the last element and returns it, None when empty.
VecPop(vec) ==
    IF vec = <<>> THEN [some |-> FALSE, rest |-> vec]
    ELSE [some |-> TRUE, item |-> vec[Len(vec)], rest |-> SubSeq(vec, 1, Len(vec) - 1)]

\* get_next_payload_from_send_buffer_queue on the locked send buffer queue:
\* the outcome, the queue and the packet cache it leaves, and the frame it
\* encoded.
GetNextPayloadFromSendBufferQueue(send_buffer_vec) ==
    LET same == [res |-> "NoSendBufferInQueue", vec |-> send_buffer_vec,
                 cache |-> packet_cache, payload |-> None]
    IN  IF send_buffer_vec = <<>> THEN same
        ELSE IF IsEmpty(send_buffer_vec[1])
        THEN [same EXCEPT !.res = "NoRemainingFragments",
                          !.vec = VecPop(send_buffer_vec).rest]
        ELSE
        LET np == NextPacket(send_buffer_vec[1])
            advanced == [send_buffer_vec EXCEPT ![1] = np.buf]
        IN  IF ~np.ok THEN [same EXCEPT !.res = np.err, !.vec = advanced]
            ELSE
            LET vec == IF IsEmpty(np.buf) THEN VecPop(advanced).rest ELSE advanced
                phy_payload == ConvertToLorawanPhyPayload(np.packet)
                ins == PacketCacheInsert(phy_payload)
                done == [same EXCEPT !.vec = vec, !.cache = ins.cache,
                                     !.payload = phy_payload]
            IN  IF ins.res # "Ok" THEN [done EXCEPT !.res = "PacketCacheError"]
                ELSE [done EXCEPT !.res = "Ok"]

\* Flooding.delay_between_sends, in units of time.
DelayBetweenSends == 2

\* The time since the last flood is followed up to twice the delay.
Elapsed(t) == IF t > 2 * DelayBetweenSends THEN 2 * DelayBetweenSends ELSE t

\* The pace of the router after a pass in which elapsed is the least time
\* since the last flood: tokio::time::sleep takes at least the delay, every
\* other statement takes no time at least. When the pass spawns a flooding
\* task the gap to the last flood is recorded.
FloodStarted(flooded, elapsed) ==
    IF ~pace_followed THEN UNCHANGED varsPace
    ELSE /\ since_flood' = IF flooded THEN 0 ELSE elapsed
         /\ flood_gap' = IF flooded THEN elapsed ELSE flood_gap
         /\ router_floods' = IF flooded /\ router_floods < 2 THEN router_floods + 1
                             ELSE router_floods
         /\ pace_followed' = pace_followed

\* routing_task, from the top of the loop to the end of the relay block: the
\* delay (or its skipping), then the relay queue is popped under its lock; a
\* relay packet is flooded and the loop starts over.
RouterCheckRelay ==
    /\ router_pc = "sleep"
    /\ LET elapsed == Elapsed(since_flood + IF skip_delay THEN 0 ELSE DelayBetweenSends)
       IN  FloodStarted(relay_packet_queue # <<>>, elapsed)
    /\ slept' = ~skip_delay
    /\ skip_delay' = FALSE
    /\ tick_error' = FALSE
    /\ relay_empty_at_check' = (relay_packet_queue = <<>>)
    /\ LET popped == VecPop(relay_packet_queue)
       IN  /\ relay_packet_queue' = popped.rest
           /\ IF popped.some
              THEN /\ last_op' = Op("check_relay",
                                    ConvertToLorawanPhyPayload(popped.item.packet),
                                    "flooded", 0)
                   /\ router_pc' = "sleep"
              ELSE /\ last_op' = Op("check_relay", None, "empty", 0)
                   /\ router_pc' = "send_buffers"
    /\ UNCHANGED <<now, reset_timeout, varsMqtt, varsLocks, varsShutdown, varsHop, varsGateways, varsDuty, varsUplink,
                   varsCache, bundle_send_buffer_tx, bundle_send_buffer_queue, bundles,
                   max_relay_packets>>

\* A router that skips its delay after every pass that found a send buffer.
SkipDelayAfterFlood(res) == res # "NoSendBufferInQueue"

\* A router that also skips its delay when no send buffer is queued.
SkipDelayAfterAnyErr(res) == res # "Ok"

\* The match on the result of get_next_payload_from_send_buffer_queue:
\* skip_delay is set for Err(_) other than NoSendBufferInQueue.
SkipDelayAfter(res) == res \notin {"Ok", "NoSendBufferInQueue"}

\* routing_task, the send buffer block: on Ok the payload is flooded, an
\* error other than NoSendBufferInQueue sets skip_delay.
RouterNextPayload ==
    /\ router_pc = "send_buffers"
    /\ router_pc' = "sleep"
    /\ LET r == GetNextPayloadFromSendBufferQueue(bundle_send_buffer_queue)
       IN  /\ FloodStarted(r.res = "Ok", since_flood)
           /\ bundle_send_buffer_queue' = r.vec
           /\ packet_cache' = r.cache
           /\ inserts' = inserts
           /\ accepted' = IF r.res = "Ok" THEN (r.payload :> now) @@ accepted ELSE accepted
           /\ last_op' = Op("next_payload", r.payload, r.res, 0)
           /\ skip_delay' = SkipDelayAfter(r.res)
           /\ tick_error' = (r.res \notin {"Ok", "NoSendBufferInQueue"})
    /\ UNCHANGED <<now, reset_timeout, varsMqtt, varsLocks, varsShutdown, varsHop, varsGateways, varsDuty, varsUplink, bundle_send_buffer_tx,
                   relay_packet_queue, bundles, relay_empty_at_check, slept,
                   max_relay_packets>>

\* The frames received for relaying: bundles for a destination that is not
\* managed here, from one source more than the relay queue holds.
RelayFrames ==
    {Frame("proprietary", 0, 9, src, 11, FALSE, 0, 0, <<src>>) :
        src \in 1..(MaxRelayPackets + 1)}

\* The router specification does not advance the clock; reset_timeout has no
\* effect in it.
InitRouterSpec ==
    /\ reset_timeout = FALSE
    /\ InitDispatcher /\ InitCache /\ InitRouter /\ InitDuty /\ InitHop /\ InitMqtt /\ NoPace /\ NoLocks /\ InitGateways /\ InitShutdown

NextRouter ==
    \/ \E f \in RelayFrames : UplinkProcess(f, LoraTxInfo(125000, 7), 0)
    \/ \E bundle \in WsBundles : BundlesProcess(bundle)
    \/ CollectRelay
    \/ CollectBundleSendBuffer
    \/ RouterCheckRelay
    \/ RouterNextPayload

SpecRouter == InitRouterSpec /\ [][NextRouter]_vars

(***************************************************************************)
(* Properties of the queue collector and the router                        *)
(***************************************************************************)
\* The last operation handed a frame to Flooding::flooding.
Flooded ==
    \/ last_op.op = "check_relay" /\ last_op.res = "flooded"
    \/ last_op.op = "next_payload" /\ last_op.res = "Ok"

\* C26: an insert refused with NotTimedOut keeps the stored timestamp when
\* reset_timeout is false and sets it to the current time when reset_timeout
\* is true; with reset_timeout false an insert is refused exactly while less
\* than TTL has passed since the frame's last accepted insert, whatever was
\* refused in between.
C26_RejectedInsertTimestamp ==
    [][inserts' = inserts + 1
       => LET x == last_op'.frame
          IN  /\ last_op'.res = "NotTimedOut"
                    => /\ x \in DOMAIN packet_cache
                       /\ packet_cache'[x] = IF reset_timeout THEN now
                                             ELSE packet_cache[x]
              /\ ~reset_timeout
                    => /\ last_op'.res = "NotTimedOut"
                            <=> x \in DOMAIN accepted /\ now - accepted[x] < TTL
                       /\ accepted'[x] = packet_cache'[x]]_vars

\* With reset_timeout false a frame accepted at an earlier time was refused
\* again after an earlier duplicate, and its entry still has the time of the
\* accepted insert.
C26_Witness ==
    /\ ~reset_timeout
    /\ last_op.op = "insert"
    /\ last_op.res = "NotTimedOut"
    /\ inserts >= 3
    /\ \A f \in CacheFrames \ {last_op.frame} : f \notin DOMAIN accepted
    /\ accepted[last_op.frame] = 0
    /\ packet_cache[last_op.frame] = 0
    /\ now > 0

\* C28: the packets taken from a send buffer have the fragment indices 0, 1,
\* 2, .. and carry the bundle payload piece by piece in that order; every
\* packet before the last carries the usable payload size of the data rate
\* less 13 bytes, and the last packet, and only it, carries the rest.
C28_FragmentsCoverPayload ==
    [][router_pc = "send_buffers" /\ last_op'.op = "next_payload" /\ last_op'.res = "Ok"
       => LET buf == bundle_send_buffer_queue[1]
              f == last_op'.frame
              budget == MaxUsablePayloadSize - 13
              rest == Len(buf.payload) - buf.payload_index
              taken == Len(f.payload)
              last == ~f.is_fragment \/ f.index = f.total - 1
          IN  /\ f.payload = Slice(buf.payload, buf.payload_index, buf.payload_index + taken)
              /\ f.is_fragment => f.index = buf.fragment_index
              /\ last <=> taken = rest
              /\ ~last => taken = budget]_vars

\* The last pass of the router took a packet out of a send buffer: next_packet
\* returned one and the buffer advanced.
TookPacket ==
    last_op.op = "next_payload" /\ last_op.res \in {"Ok", "PacketCacheError"}

\* The router with the pace of its floods followed: one frame to relay and
\* the bundles of the websocket clients.
InitPace ==
    /\ reset_timeout = FALSE
    /\ InitDispatcher /\ InitCache /\ InitRouter /\ InitDuty /\ InitHop /\ InitMqtt
    /\ InitGateways /\ InitShutdown
    /\ since_flood = 0
    /\ flood_gap = 0
    /\ router_floods = 0
    /\ pace_followed = TRUE
    /\ NoLocks

NextPace ==
    \/ UplinkProcess(Frame("proprietary", 0, 9, 1, 11, FALSE, 0, 0, <<1>>),
                     LoraTxInfo(125000, 7), 0)
    \/ \E bundle \in WsBundles : BundlesProcess(bundle)
    \/ CollectRelay
    \/ CollectBundleSendBuffer
    \/ RouterCheckRelay
    \/ RouterNextPayload

SpecPace == InitPace /\ [][NextPace]_vars

\* C36: between two consecutive floods the router starts at least the delay
\* between sends passes, also when a pass that ended in an error made the
\* next pass skip its sleep.
C36_FloodCadence == router_floods >= 2 => flood_gap >= DelayBetweenSends

\* The router started a flood in a pass that skipped its sleep after an error,
\* and it had started a flood before.
C36_Witness ==
    /\ router_floods >= 2
    /\ Flooded
    /\ ~slept
    /\ flood_gap >= DelayBetweenSends

\* C33: every packet the router takes out of a send buffer is handed to
\* flooding in the same pass; none is taken and then dropped.
C33_TakenPacketsFlooded == TookPacket => Flooded

\* C3: every frame the router floods, whether taken from the relay queue
\* or produced by a send buffer, is in the packet cache when it is handed to
\* flooding, the router having inserted it.
C3_FloodedFramesRegistered == Flooded => last_op.frame \in DOMAIN packet_cache

\* The step is the send buffer block of the router.
RouterNextPayloadStep == router_pc = "send_buffers" /\ router_pc' = "sleep"

\* C4: the send buffer block of the router leaves the queue as it is, or
\* advances the head buffer and keeps every buffer in place, or removes the
\* head buffer and keeps every other buffer in place.
C4_OnlyHeadBufferRemoved ==
    [][RouterNextPayloadStep
       => \/ bundle_send_buffer_queue' = bundle_send_buffer_queue
          \/ /\ Len(bundle_send_buffer_queue') = Len(bundle_send_buffer_queue)
             /\ Tail(bundle_send_buffer_queue') = Tail(bundle_send_buffer_queue)
          \/ bundle_send_buffer_queue' = Tail(bundle_send_buffer_queue)]_vars

\* C5: the router takes a packet from a send buffer only in a pass of its
\* loop whose check of the relay queue, made before under the queue's lock,
\* found the relay queue empty; a pass that finds a relay packet floods it
\* and leaves the send buffers alone.
C5_RelayPriority ==
    [][/\ RouterNextPayloadStep => relay_empty_at_check
       /\ bundle_send_buffer_queue' # bundle_send_buffer_queue
          => \/ RouterNextPayloadStep
             \/ last_op'.op = "collect_bundle"
       /\ (router_pc = "sleep" /\ relay_packet_queue # <<>> /\ last_op'.op = "check_relay"
             /\ relay_packet_queue' # relay_packet_queue)
          => /\ last_op'.res = "flooded"
             /\ router_pc' = "sleep"
             /\ bundle_send_buffer_queue' = bundle_send_buffer_queue]_vars

\* The router took a packet from a send buffer after relay packets had been
\* flooded and the relay queue was found empty.
C5_Witness ==
    /\ last_op.op = "next_payload"
    /\ last_op.res = "Ok"
    /\ relay_empty_at_check
    /\ relay_packet_queue = <<>>
    /\ uplinks > 0

\* C6: an item that the queue collector receives while its queue holds the
\* maximum is dropped and the queue is left as it is, an item received
\* otherwise is appended; a producer that finds its channel full returns at
\* once and leaves the channel as it is.
C6_FullQueueDropsNewItem ==
    [][/\ (relay_tx # <<>> /\ relay_tx' = Tail(relay_tx))
          => relay_packet_queue' =
                 IF Len(relay_packet_queue) >= MaxRelayPackets THEN relay_packet_queue
                 ELSE Append(relay_packet_queue, Head(relay_tx))
       /\ (bundle_send_buffer_tx # <<>>
             /\ bundle_send_buffer_tx' = Tail(bundle_send_buffer_tx))
          => bundle_send_buffer_queue' =
                 IF Len(bundle_send_buffer_queue) >= MaxBundleBuffers
                 THEN bundle_send_buffer_queue
                 ELSE Append(bundle_send_buffer_queue, Head(bundle_send_buffer_tx))
       /\ (uplinks' = uplinks + 1 /\ Len(relay_tx) >= ChannelCapacity)
          => relay_tx' = relay_tx
       /\ (bundles' = bundles + 1 /\ Len(bundle_send_buffer_tx) >= ChannelCapacity)
          => bundle_send_buffer_tx' = bundle_send_buffer_tx
       /\ Len(relay_packet_queue') <= MaxRelayPackets
       /\ Len(bundle_send_buffer_queue') <= MaxBundleBuffers]_vars

\* The collector dropped a relay packet that arrived while the relay queue
\* was full.
C6_Witness ==
    /\ last_op.op = "collect_relay"
    /\ last_op.res = "dropped"
    /\ Len(relay_packet_queue) = MaxRelayPackets
    /\ relay_tx = <<>>

(***************************************************************************)
(* Duty cycle accounting (duty_cycle_manager.rs). Airtime is in whole      *)
(* milliseconds and time in whole minutes.                                 *)
(***************************************************************************)
EuSubBands ==
    {"Sb863000_865000", "Sb865000_868000", "Sb868000_868600",
     "Sb868700_869200", "Sb869400_869650", "Sb869700_870000"}

\* EuSubBand::duty_cycle, in thousandths.
DutyCycle(band) ==
    CASE band = "Sb863000_865000" -> 1
      [] band = "Sb865000_868000" -> 10
      [] band = "Sb868000_868600" -> 10
      [] band = "Sb868700_869200" -> 1
      [] band = "Sb869400_869650" -> 100
      [] band = "Sb869700_870000" -> 10

\* EuSubBand::try_from_freq, None for Err(NoMatchingSubBand).
TryFromFreq(freq) ==
    CASE freq \in 863000000..865000000 -> "Sb863000_865000"
      [] freq \in 865000001..868000000 -> "Sb865000_868000"
      [] freq \in 868000001..868600000 -> "Sb868000_868600"
      [] freq \in 868700000..869200000 -> "Sb868700_869200"
      [] freq \in 869400000..869650000 -> "Sb869400_869650"
      [] freq \in 869700000..870000000 -> "Sb869700_870000"
      [] OTHER -> None

\* PerGatewayDutyCycleManager::new
NewPerGatewayDutyCycleManager == [band \in EuSubBands |-> <<>>]

\* Duration::num_minutes() of a duration of d seconds that is not negative.
NumMinutes(d) == d \div SecondsPerMinute

\* A sweep that drops an entry once it is older than half the window.
RemoveOutdatedCapacityEarly(bands, t) ==
    [band \in EuSubBands |->
        SelectSeq(bands[band], LAMBDA e : ~(2 * NumMinutes(t - e.ts) > OutdatedMinutes))]

\* remove_outdated_capacity: an entry is removed when
\* (now - timestamp).num_minutes() > 60.
RemoveOutdatedCapacity(bands, t) ==
    [band \in EuSubBands |->
        SelectSeq(bands[band], LAMBDA e : ~(NumMinutes(t - e.ts) > OutdatedMinutes))]

RECURSIVE SumCapacity(_)
\* iter().fold(0.0, |sum, (_, capacity)| sum + capacity)
SumCapacity(entries) ==
    IF entries = <<>> THEN 0 ELSE entries[1].capacity + SumCapacity(Tail(entries))

\* An is_capacity_available that requires capacity to be left over.
IsCapacityAvailableStrict(bands, needed_capacity, freq, t) ==
    LET band == TryFromFreq(freq)
    IN  IF band = None THEN [ok |-> FALSE, err |-> "NoMatchingSubBand", bands |-> bands]
        ELSE LET swept == RemoveOutdatedCapacity(bands, t)
             IN  [ok |-> TRUE, bands |-> swept,
                  available |-> (DutyCycle(band) * MsPerHour) \div 1000
                                    > SumCapacity(swept[band]) + needed_capacity]

\* PerGatewayDutyCycleManager::is_capacity_available with
\* calculate_used_capacity, which sweeps first: the answer and the swept bands.
IsCapacityAvailable(bands, needed_capacity, freq, t) ==
    LET band == TryFromFreq(freq)
    IN  IF band = None THEN [ok |-> FALSE, err |-> "NoMatchingSubBand", bands |-> bands]
        ELSE LET swept == RemoveOutdatedCapacity(bands, t)
             IN  [ok |-> TRUE, bands |-> swept,
                  available |-> (DutyCycle(band) * MsPerHour) \div 1000
                                    >= SumCapacity(swept[band]) + needed_capacity]

\* PerGatewayDutyCycleManager::consume_capacity
ConsumeCapacity(bands, used_capacity, freq, t) ==
    LET a == IsCapacityAvailable(bands, used_capacity, freq, t)
    IN  IF ~a.ok THEN [res |-> a.err, bands |-> a.bands]
        ELSE IF a.available
        THEN [res |-> "Ok",
              bands |-> [a.bands EXCEPT ![TryFromFreq(freq)] =
                                            Append(@, [ts |-> t, capacity |-> used_capacity])]]
        ELSE [res |-> "CapacityOverused", bands |-> a.bands]

\* The gateways.entry(gateway_id) of DutyCycleManager: the gateway's manager,
\* a new one for a gateway that is not yet known.
GatewayEntry(gateways, gateway_id) ==
    IF gateway_id \in DOMAIN gateways THEN gateways[gateway_id]
    ELSE NewPerGatewayDutyCycleManager

\* A DownlinkFrame as the (frequency, airtime) of each of its items, the
\* airtime being what calculate_lora_airtime yields for the item.
DownlinkItem(freq, airtime) == [freq |-> freq, airtime |-> airtime]

\* The frequencies of the modelled downlinks that lie in a sub band.
SubBandFreqs == {863000000, 868300000}

\* The airtimes of the modelled downlinks, in ms: half and the whole of the
\* budget of the sub band of 0.1 % duty cycle.
Airtimes == {1800, 3600}

\* The downlink commands observed: for one gateway a frame of half and one of
\* the whole budget of its sub band, a frame of two items, a frame on a
\* frequency between the sub bands and a frame without items; for a second
\* gateway one frame.
DownlinkCommands ==
    {<<"gw1", d>> : d \in {<<DownlinkItem(863000000, 1800)>>,
                           <<DownlinkItem(863000000, 3600)>>,
                           <<DownlinkItem(863000000, 1800), DownlinkItem(868300000, 3600)>>,
                           <<DownlinkItem(868650000, 1800)>>,
                           <<>>}}
    \cup {<<"gw2", <<DownlinkItem(863000000, 3600)>>>>}

\* calc_max_downlink_airtime: Err(NoItems) for a frame without items, else the
\* last item after sort_unstable_by airtime, which is any item of maximal
\* airtime.
CalcMaxDownlinkAirtime(downlink) ==
    IF downlink = <<>> THEN [ok |-> FALSE, err |-> "NoItems"]
    ELSE [ok |-> TRUE,
          results |-> {downlink[k] : k \in {j \in DOMAIN downlink :
                          \A l \in DOMAIN downlink : downlink[l].airtime <= downlink[j].airtime}}]

\* DownlinkCallback::dispatch_down_command
DispatchDownCommand(gateway_id, downlink_command) ==
    /\ downlinks < MaxDownlinks
    /\ downlinks' = downlinks + 1
    /\ downlink_callback_tx' =
           TrySend(downlink_callback_tx,
                   [gateway_id |-> gateway_id, downlink |-> downlink_command]).chan
    /\ UNCHANGED <<now, reset_timeout, varsMqtt, varsPace, varsLocks, varsShutdown, varsHop, varsGateways, last_op, varsUplink, varsCache, varsRouter,
                   duty_cycle_manager, consumed>>

\* The record of a call on the duty cycle manager kept in last_op.
CapacityCall(gateway_id, freq, capacity) ==
    [gateway_id |-> gateway_id, freq |-> freq, capacity |-> capacity]

\* One iteration of the loop of downlink_duty_cycle_collector_task:
\* calc_max_downlink_airtime, then DutyCycleManager::consume_capacity.
CollectDownlink ==
    /\ downlink_callback_tx # <<>>
    /\ downlink_callback_tx' = Tail(downlink_callback_tx)
    /\ LET gateway_id == Head(downlink_callback_tx).gateway_id
           calc == CalcMaxDownlinkAirtime(Head(downlink_callback_tx).downlink)
       IN  IF ~calc.ok
           THEN /\ last_op' = Op("collect_downlink", None, calc.err, 0)
                /\ UNCHANGED <<duty_cycle_manager, consumed>>
           ELSE \E max \in calc.results :
                    LET r == ConsumeCapacity(GatewayEntry(duty_cycle_manager, gateway_id),
                                             max.airtime, max.freq, now)
                    IN  /\ duty_cycle_manager' = (gateway_id :> r.bands) @@ duty_cycle_manager
                        /\ consumed' =
                               IF r.res = "Ok"
                               THEN Append(consumed,
                                           [gateway_id |-> gateway_id,
                                            band |-> TryFromFreq(max.freq),
                                            ts |-> now, capacity |-> max.airtime])
                               ELSE consumed
                        /\ last_op' = Op("collect_downlink",
                                         CapacityCall(gateway_id, max.freq, max.airtime),
                                         r.res, 0)
    /\ UNCHANGED <<now, reset_timeout, varsMqtt, varsPace, varsLocks, varsShutdown, varsHop, varsGateways, varsUplink, varsCache, varsRouter, downlinks>>

\* The calls of is_capacity_available that are made.
CapacityQueries ==
    {CapacityCall("gw1", 863000000, a) : a \in Airtimes}

\* A call of DutyCycleManager::is_capacity_available.
IsCapacityAvailableCall(q) ==
    /\ LET a == IsCapacityAvailable(GatewayEntry(duty_cycle_manager, q.gateway_id),
                                    q.capacity, q.freq, now)
       IN  /\ duty_cycle_manager' = (q.gateway_id :> a.bands) @@ duty_cycle_manager
           /\ last_op' = Op("is_capacity_available", q,
                            IF ~a.ok THEN a.err
                            ELSE IF a.available THEN "available" ELSE "unavailable", 0)
    /\ UNCHANGED <<now, reset_timeout, varsMqtt, varsPace, varsLocks, varsShutdown, varsHop, varsGateways, varsUplink, varsCache, varsRouter,
                   downlink_callback_tx, downlinks, consumed>>

\* The steps of the wall clock, in seconds: half an hour and half a minute
\* more; they reach ages of exactly OutdatedMinutes, of half a minute more
\* and of one minute more.
ClockSteps == {1800, 1830}

TickDuty ==
    /\ \E d \in ClockSteps :
          /\ now + d <= MaxMinutes * SecondsPerMinute
          /\ now' = now + d
    /\ UNCHANGED <<reset_timeout, varsMqtt, varsPace, varsLocks, varsShutdown, varsHop, varsGateways, last_op, varsUplink, varsCache, varsRouter, varsDuty>>

InitDutySpec ==
    /\ reset_timeout = FALSE
    /\ InitDispatcher /\ InitCache /\ InitRouter /\ InitDuty /\ InitHop /\ InitMqtt /\ NoPace /\ NoLocks /\ InitGateways /\ InitShutdown

NextDuty ==
    \/ \E c \in DownlinkCommands : DispatchDownCommand(c[1], c[2])
    \/ CollectDownlink
    \/ \E q \in CapacityQueries : IsCapacityAvailableCall(q)
    \/ TickDuty

SpecDuty == InitDutySpec /\ [][NextDuty]_vars

(***************************************************************************)
(* Properties of the duty cycle accounting                                 *)
(***************************************************************************)
\* The hour of the duty cycle, in seconds of the wall clock.
SecondsPerHour == OutdatedMinutes * SecondsPerMinute

\* The budget of a sub band in milliseconds per hour.
Budget(band) == (DutyCycle(band) * MsPerHour) \div 1000

\* The entries of one band of a gateway that are not older than the window.
Kept(gateway_id, band) ==
    SelectSeq(GatewayEntry(duty_cycle_manager, gateway_id)[band],
              LAMBDA e : NumMinutes(now - e.ts) <= OutdatedMinutes)

\* The step is a collector step that called consume_capacity for a frequency
\* of a sub band.
ConsumeStep ==
    /\ downlink_callback_tx # <<>>
    /\ downlink_callback_tx' = Tail(downlink_callback_tx)
    /\ last_op'.op = "collect_downlink"
    /\ last_op'.res \in {"Ok", "CapacityOverused"}

\* C7: consume_capacity(a, freq, gateway) succeeds if and only if, the
\* outdated entries swept, the airtime used in the sub band of freq on that
\* gateway plus a does not exceed duty_cycle * 3_600_000 ms; it then appends
\* the one entry (now, a); otherwise it returns CapacityOverused and appends
\* nothing. The other sub bands are swept only and the other gateways are
\* left as they are.
C7_ConsumeCapacity ==
    [][ConsumeStep
       => LET c == last_op'.frame
              band == TryFromFreq(c.freq)
              fits == SumCapacity(Kept(c.gateway_id, band)) + c.capacity <= Budget(band)
          IN  /\ last_op'.res = "Ok" <=> fits
              /\ duty_cycle_manager'[c.gateway_id] =
                     [b \in EuSubBands |->
                         IF b = band /\ fits
                         THEN Append(Kept(c.gateway_id, b),
                                     [ts |-> now, capacity |-> c.capacity])
                         ELSE Kept(c.gateway_id, b)]
              /\ \A g \in DOMAIN duty_cycle_manager \ {c.gateway_id} :
                     duty_cycle_manager'[g] = duty_cycle_manager[g]]_vars

\* A consume_capacity call succeeded that used up the budget of its sub band
\* exactly, on top of an earlier entry.
C7_Witness ==
    /\ last_op.op = "collect_downlink"
    /\ last_op.res = "Ok"
    /\ LET band == TryFromFreq(last_op.frame.freq)
           entries == duty_cycle_manager[last_op.frame.gateway_id][band]
       IN  /\ Len(entries) >= 2
           /\ SumCapacity(entries) = Budget(band)
           /\ entries[Len(entries)] = [ts |-> now, capacity |-> last_op.frame.capacity]

\* The airtime consumed on a sub band of a gateway at the times lo .. hi.
ConsumedBetween(gateway_id, band, lo, hi) ==
    SumCapacity(SelectSeq(consumed,
                          LAMBDA e : /\ e.gateway_id = gateway_id /\ e.band = band
                                     /\ lo <= e.ts /\ e.ts <= hi))

\* C8: for every gateway and sub band, whatever the order of the calls: when
\* the airtime S consumed within the last hour plus a exceeds the budget of
\* the sub band, is_capacity_available(a) is false; and the airtime consumed
\* within any one hour does not exceed the budget.
C8_BudgetNeverExceeded ==
    \A gateway_id \in {c[1] : c \in DownlinkCommands} :
       \A freq \in SubBandFreqs :
          LET band == TryFromFreq(freq)
          IN  /\ \A a \in Airtimes :
                    ConsumedBetween(gateway_id, band, now - SecondsPerHour, now)
                          + a > Budget(band)
                    => ~IsCapacityAvailable(GatewayEntry(duty_cycle_manager, gateway_id),
                                            a, freq, now).available
              /\ \A k \in DOMAIN consumed :
                    ConsumedBetween(gateway_id, band, consumed[k].ts,
                                    consumed[k].ts + SecondsPerHour) <= Budget(band)

\* is_capacity_available answered no on a sub band whose budget was consumed
\* by two calls within the hour, after earlier airtime had been released.
C8_Witness ==
    /\ last_op.op = "is_capacity_available"
    /\ last_op.res = "unavailable"
    /\ LET band == TryFromFreq(last_op.frame.freq)
           gw == last_op.frame.gateway_id
       IN  /\ ConsumedBetween(gw, band, now - SecondsPerHour, now) = Budget(band)
           /\ ConsumedBetween(gw, band, 0, now) > Budget(band)

\* The entries of one band of a gateway that are at most one hour old.
WithinHour(gateway_id, band) ==
    SelectSeq(GatewayEntry(duty_cycle_manager, gateway_id)[band],
              LAMBDA e : now - e.ts <= SecondsPerHour)

\* C30: is_capacity_available and consume_capacity count no entry that is
\* older than 60 minutes: the airtime asked for is granted exactly when it
\* fits into the budget next to the entries of the last 60 minutes, so that
\* airtime consumed at time t is available again at every time after t + 60
\* minutes.
C30_OldEntriesNotCounted ==
    [][ConsumeStep \/ last_op'.op = "is_capacity_available"
       => LET c == last_op'.frame
              band == TryFromFreq(c.freq)
          IN  last_op'.res \in {"Ok", "available"}
                  <=> SumCapacity(WithinHour(c.gateway_id, band)) + c.capacity
                          <= Budget(band)]_vars

\* C31: try_from_freq gives every frequency of 863_000_000 ..= 870_000_000 Hz
\* one of the six sub bands and gives an error for every other frequency.
C31_SubBandsCoverInterval ==
    last_op.op = "collect_downlink"
        /\ last_op.res \in {"Ok", "CapacityOverused", "NoMatchingSubBand"}
    => (last_op.frame.freq \in 863000000..870000000
            <=> /\ TryFromFreq(last_op.frame.freq) \in EuSubBands
                /\ last_op.res # "NoMatchingSubBand")

\* C9: every downlink frame observed for a gateway on a frequency of a sub
\* band adds its airtime to the airtime recorded for that gateway and sub
\* band.
C9_ObservedDownlinkRecorded ==
    [][ConsumeStep
       => LET c == last_op'.frame
              band == TryFromFreq(c.freq)
          IN  SumCapacity(duty_cycle_manager'[c.gateway_id][band])
                  = SumCapacity(Kept(c.gateway_id, band)) + c.capacity]_vars

(***************************************************************************)
(* Packets as bytes (lorawan_protocol.rs)                                  *)
(***************************************************************************)
\* DataRate::max_usable_payload_size(false): the bytes after the MAC header.
DataRateMaxUsablePayloadSize(data_rate) ==
    CASE data_rate \in {"Dr0", "Dr1", "Dr2"} -> 59 + 4
      [] data_rate = "Dr3" -> 123 + 4
      [] data_rate \in {"Dr4", "Dr5", "Dr6"} -> 250 + 4

\* DataRate::max_allowed_payload_size(false): MAC header included.
DataRateMaxAllowedPayloadSize(data_rate) ==
    CASE data_rate \in {"Dr0", "Dr1", "Dr2"} -> 1 + 59 + 4
      [] data_rate = "Dr3" -> 1 + 123 + 4
      [] data_rate \in {"Dr4", "Dr5", "Dr6"} -> 1 + 250 + 4

\* u32::to_le_bytes
ToLeBytes(x) ==
    <<x % 256, (x \div 256) % 256, (x \div 65536) % 256, (x \div 16777216) % 256>>

\* u32::from_le_bytes of the bytes at + 1 .. at + 4 of a sequence.
FromLeBytes(bytes, at) ==
    bytes[at + 1] + 256 * bytes[at + 2] + 65536 * bytes[at + 3] + 16777216 * bytes[at + 4]

RECURSIVE BitXor(_, _, _)
\* The exclusive or of two numbers of n bits.
BitXor(a, b, n) ==
    IF n = 0 THEN 0
    ELSE ((a + b) % 2) + 2 * BitXor(a \div 2, b \div 2, n - 1)

\* The CRC-32 register is kept as its eight groups of four bits, the lowest
\* first. Crc32Table holds the CRC-32 (polynomial 0xEDB88320, reflected) of
\* the sixteen values of four bits in that form.
Crc32Table ==
    <<<<0, 0, 0, 0, 0, 0, 0, 0>>,
      <<4, 6, 0, 1, 7, 11, 13, 1>>,
      <<8, 12, 0, 2, 14, 6, 11, 3>>,
      <<12, 10, 0, 3, 9, 13, 6, 2>>,
      <<0, 9, 1, 4, 12, 13, 6, 7>>,
      <<4, 15, 1, 5, 11, 6, 11, 6>>,
      <<8, 5, 1, 6, 2, 11, 13, 4>>,
      <<12, 3, 1, 7, 5, 0, 0, 5>>,
      <<0, 2, 3, 8, 8, 11, 13, 14>>,
      <<4, 4, 3, 9, 15, 0, 0, 15>>,
      <<8, 14, 3, 10, 6, 13, 6, 13>>,
      <<12, 8, 3, 11, 1, 6, 11, 12>>,
      <<0, 11, 2, 12, 4, 6, 11, 9>>,
      <<4, 13, 2, 13, 3, 13, 6, 8>>,
      <<8, 7, 2, 14, 10, 0, 0, 10>>,
      <<12, 1, 2, 15, 13, 11, 13, 11>>>>

\* One step of the register for four bits of input: the table entry selected
\* by the lowest four bits, combined with the register shifted right by four.
Crc32Nibble(crc, nibble) ==
    LET entry == Crc32Table[BitXor(crc[1], nibble, 4) + 1]
    IN  <<BitXor(entry[1], crc[2], 4), BitXor(entry[2], crc[3], 4),
          BitXor(entry[3], crc[4], 4), BitXor(entry[4], crc[5], 4),
          BitXor(entry[5], crc[6], 4), BitXor(entry[6], crc[7], 4),
          BitXor(entry[7], crc[8], 4), entry[8]>>

\* The register after one more byte, its low four bits first.
Crc32Byte(crc, byte) ==
    Crc32Nibble(Crc32Nibble(crc, byte % 16), byte \div 16)

RECURSIVE Crc32Update(_, _, _, _)
\* The register after the bytes at the indices from .. to, taken in order:
\* the first half of them, then the second half.
Crc32Update(crc, bytes, from, to) ==
    IF from > to THEN crc
    ELSE IF from = to THEN Crc32Byte(crc, bytes[from])
    ELSE LET mid == (from + to) \div 2
             half == Crc32Update(crc, bytes, from, mid)
         IN  IF Len(half) = 8 THEN Crc32Update(half, bytes, mid + 1, to) ELSE half

\* crc32fast::hash: the CRC-32 (IEEE) of the bytes, as the four bytes of
\* u32::to_le_bytes.
Crc32(bytes) ==
    LET crc == Crc32Update(<<15, 15, 15, 15, 15, 15, 15, 15>>, bytes, 1, Len(bytes))
    IN  <<(15 - crc[1]) + 16 * (15 - crc[2]), (15 - crc[3]) + 16 * (15 - crc[4]),
          (15 - crc[5]) + 16 * (15 - crc[6]), (15 - crc[7]) + 16 * (15 - crc[8])>>

\* A CompleteBundle packet.
CompleteBundle(destination, source, timestamp, payload) ==
    [packet_type |-> "CompleteBundle", destination |-> destination,
     source |-> source, timestamp |-> timestamp, payload |-> payload]

\* A Hop2HopFragment packet.
Hop2HopFragment(packet_hash, total_fragments, fragment_index, payload) ==
    [packet_type |-> "Hop2HopFragment", packet_hash |-> packet_hash,
     total_fragments |-> total_fragments, fragment_index |-> fragment_index,
     payload |-> payload]

\* LoRaWanPacket::convert_to_lorawan_phy_payload of CompleteBundle, of
\* BundleFragment and of Hop2HopFragment: the bytes on the wire.
PhyPayloadBytes(packet) ==
    IF packet.packet_type = "CompleteBundle"
    THEN <<LoRaWanProprietaryTag, PacketTypeCompleteBundle>>
         \o ToLeBytes(packet.destination) \o ToLeBytes(packet.source)
         \o ToLeBytes(packet.timestamp) \o packet.payload
    ELSE IF packet.packet_type \in {"BundleFragment", "BundleFragmentEnd"}
    THEN <<LoRaWanProprietaryTag,
           IF packet.is_end THEN PacketTypeBundleFragmentEnd ELSE PacketTypeBundleFragment>>
         \o ToLeBytes(packet.destination) \o ToLeBytes(packet.source)
         \o ToLeBytes(packet.timestamp) \o <<packet.fragment_index>> \o packet.payload
    ELSE <<LoRaWanProprietaryTag, PacketTypeHop2HopFragment>>
         \o packet.packet_hash
         \o <<packet.total_fragments, packet.fragment_index>> \o packet.payload

\* Chunks that each lose their last byte.
ChunksOneShort(bytes, size) ==
    [i \in 1..((Len(bytes) + size - 1) \div size) |->
        SubSeq(bytes, (i - 1) * size + 1,
               (IF i * size < Len(bytes) THEN i * size ELSE Len(bytes)) - 1)]

\* slice::chunks(size): consecutive chunks of size bytes, the last one shorter
\* when the length is not a multiple of size.
Chunks(bytes, size) ==
    [i \in 1..((Len(bytes) + size - 1) \div size) |->
        SubSeq(bytes, (i - 1) * size + 1,
               IF i * size < Len(bytes) THEN i * size ELSE Len(bytes))]

\* bytes_per_packet of convert_to_hop_2_hop_fragments
BytesPerPacket(data_rate) ==
    DataRateMaxUsablePayloadSize(data_rate) - Hop2HopHeadersSize

\* LoRaWanPacket::convert_to_hop_2_hop_fragments for a packet with the wire
\* bytes payload; the counts are cast to u8.
ConvertToHop2HopFragments(payload, data_rate) ==
    LET packet_hash == Crc32(payload)
        chunks == Chunks(payload, BytesPerPacket(data_rate))
        total_fragments == Len(chunks) % 256
    IN  [i \in 1..Len(chunks) |->
            Hop2HopFragment(packet_hash, total_fragments, (i - 1) % 256, chunks[i])]


(***************************************************************************)
(* Hop2HopReceiveBuffer (receive_buffers/hop2hop.rs) and                   *)
(* ReceiveBufferManager::process_packet (receive_buffers.rs)               *)
(***************************************************************************)
\* parse_packet, used on the reassembled bytes. Its source is not part of the
\* tree at hand; it is modelled after the design's decode_inner: the MAC
\* header byte is skipped, the type byte selects the kind and the fields
\* follow in wire order. Kinds other than CompleteBundle and Hop2HopFragment
\* are not part of the modelled traffic.
ParsePacket(bytes) ==
    IF Len(bytes) < 2 THEN [ok |-> FALSE, err |-> "Incomplete"]
    ELSE IF bytes[2] = PacketTypeCompleteBundle
    THEN IF Len(bytes) < 14 THEN [ok |-> FALSE, err |-> "Incomplete"]
         ELSE [ok |-> TRUE,
               packet |-> CompleteBundle(FromLeBytes(bytes, 2), FromLeBytes(bytes, 6),
                                         FromLeBytes(bytes, 10),
                                         SubSeq(bytes, 15, Len(bytes)))]
    ELSE IF bytes[2] = PacketTypeHop2HopFragment
    THEN IF Len(bytes) < 8 THEN [ok |-> FALSE, err |-> "Incomplete"]
         ELSE [ok |-> TRUE,
               packet |-> Hop2HopFragment(SubSeq(bytes, 3, 6), bytes[7], bytes[8],
                                          SubSeq(bytes, 9, Len(bytes)))]
    ELSE [ok |-> FALSE, err |-> "UnknownPacketType"]

\* TryFrom<&mut Hop2HopFragment> for Hop2HopReceiveBuffer
Hop2HopReceiveBufferTryFrom(fragment) ==
    IF fragment.fragment_index >= fragment.total_fragments
    THEN [ok |-> FALSE, err |-> "IndexLargerThanTotal"]
    ELSE [ok |-> TRUE,
          buf |-> [packet_hash |-> fragment.packet_hash,
                   total_fragments |-> fragment.total_fragments,
                   received_fragments |-> (fragment.fragment_index :> fragment.payload)]]

\* A process_packet without the check for an index received before.
Hop2HopProcessPacketOverwrites(buf, fragment) ==
    IF fragment.packet_hash # buf.packet_hash
    THEN [ok |-> FALSE, err |-> "HashMismatch"]
    ELSE IF fragment.total_fragments # buf.total_fragments
    THEN [ok |-> FALSE, err |-> "TotalFragmentsMismatch"]
    ELSE IF fragment.fragment_index >= buf.total_fragments
    THEN [ok |-> FALSE, err |-> "IndexLargerThanTotal"]
    ELSE [ok |-> TRUE,
          buf |-> [buf EXCEPT !.received_fragments =
                                  (fragment.fragment_index :> fragment.payload) @@ @]]

\* Hop2HopReceiveBuffer::process_packet
Hop2HopProcessPacket(buf, fragment) ==
    IF fragment.packet_hash # buf.packet_hash
    THEN [ok |-> FALSE, err |-> "HashMismatch"]
    ELSE IF fragment.total_fragments # buf.total_fragments
    THEN [ok |-> FALSE, err |-> "TotalFragmentsMismatch"]
    ELSE IF fragment.fragment_index >= buf.total_fragments
    THEN [ok |-> FALSE, err |-> "IndexLargerThanTotal"]
    ELSE IF fragment.fragment_index \in DOMAIN buf.received_fragments
    THEN [ok |-> FALSE, err |-> "IndexAlreadyReceived"]
    ELSE [ok |-> TRUE,
          buf |-> [buf EXCEPT !.received_fragments =
                                  (fragment.fragment_index :> fragment.payload) @@ @]]

\* Hop2HopReceiveBuffer::is_combinable
IsCombinable(buf) ==
    Cardinality(DOMAIN buf.received_fragments) = buf.total_fragments

\* Hop2HopReceiveBuffer::combine
Hop2HopCombine(buf) ==
    IF ~IsCombinable(buf) THEN [ok |-> FALSE, err |-> "FragmentsMissing"]
    ELSE ParsePacket(ValuesInKeyOrder(buf.received_fragments))


\* ReceiveBufferManager::send_pb7_bundle_to_ws: broadcast when a websocket
\* client is connected, drop the bundle otherwise.
SendPb7BundleToWs(ws, receivers, bundle) ==
    IF receivers > 0 THEN Append(ws, bundle) ELSE ws

RECURSIVE ProcessPacket(_, _, _, _)
\* ReceiveBufferManager::process_packet for a CompleteBundle or a
\* Hop2HopFragment: the new hop 2 hop buffers, the bundles sent to the
\* websocket clients, the outcome and the packet a combine decoded. A
\* CompleteBundle meets a vacant key and is combinable at once; a packet
\* decoded from hop 2 hop fragments is passed to process_packet again.
ProcessPacket(packet, bufs, ws, receivers) ==
    IF packet.packet_type = "CompleteBundle"
    THEN [res |-> "delivered", bufs |-> bufs, combined |-> None,
          ws |-> SendPb7BundleToWs(ws, receivers,
                                   [destination |-> packet.destination,
                                    source |-> packet.source,
                                    timestamp |-> packet.timestamp,
                                    payload |-> packet.payload])]
    ELSE
    LET key == packet.packet_hash
        same == [res |-> "process_error", bufs |-> bufs, combined |-> None, ws |-> ws]
        without == [k \in DOMAIN bufs \ {key} |-> bufs[k]]
        combine(buf) ==
            LET c == Hop2HopCombine(buf)
            IN  IF c.ok
                THEN LET inner == ProcessPacket(c.packet, without, ws, receivers)
                     IN  [res |-> "combined", bufs |-> inner.bufs,
                          combined |-> c.packet, ws |-> inner.ws]
                ELSE [same EXCEPT !.res = "combine_error", !.bufs = without]
    IN  IF key \in DOMAIN bufs
        THEN LET pr == Hop2HopProcessPacket(bufs[key], packet)
             IN  IF ~pr.ok THEN same
                 ELSE IF IsCombinable(pr.buf) THEN combine(pr.buf)
                 ELSE [same EXCEPT !.res = "buffered", !.bufs = (key :> pr.buf) @@ bufs]
        ELSE LET tf == Hop2HopReceiveBufferTryFrom(packet)
             IN  IF ~tf.ok THEN [same EXCEPT !.res = "creation_error"]
                 ELSE IF IsCombinable(tf.buf) THEN combine(tf.buf)
                 ELSE [same EXCEPT !.res = "buffered", !.bufs = (key :> tf.buf) @@ bufs]

\* The packets handed to the fragmenter: a bundle for a managed end device
\* whose wire bytes are 100 long, and one for an end device that is not
\* managed here whose wire bytes are one longer than a fragment at Dr0 holds.
HopPackets ==
    {CompleteBundle(7, 1, 11, Payload(86)), CompleteBundle(9, 1, 12, Payload(44))}

\* The data rates of the fragmenter.
HopDataRates == {"Dr0", "Dr3"}

\* The fragmenter applied to each of its inputs.
HopFragmentations ==
    {[packet |-> packet, data_rate |-> data_rate,
      fragments |-> ConvertToHop2HopFragments(PhyPayloadBytes(packet), data_rate)] :
        packet \in HopPackets, data_rate \in HopDataRates}

\* A packet is converted to hop 2 hop fragments.
HopSend(packet, data_rate) ==
    /\ hop_sends < MaxHopSends
    /\ hop_sends' = hop_sends + 1
    /\ hop_fragments' =
            (CHOOSE f \in HopFragmentations :
                f.packet = packet /\ f.data_rate = data_rate).fragments
    /\ last_op' = Op("hop_send", [packet |-> packet, data_rate |-> data_rate], "Ok", 0)
    /\ UNCHANGED <<now, reset_timeout, varsMqtt, varsPace, varsLocks, varsShutdown, varsUplink, varsCache, varsRouter, varsDuty,
                   varsGateways, hop2hop_receive_buffers, hop_packets, hop_combined>>

\* Fragments of other senders: one whose single payload does not decode, two
\* that together do not decode, one whose index is not below its total, and
\* two with the hash of the pair, one announcing another total and one with
\* an index that is not below the pair's total.
ForeignFragments ==
    {Hop2HopFragment(<<1, 0, 0, 0>>, 1, 0, <<LoRaWanProprietaryTag, 7>>),
     Hop2HopFragment(<<2, 0, 0, 0>>, 2, 0, <<LoRaWanProprietaryTag>>),
     Hop2HopFragment(<<2, 0, 0, 0>>, 2, 1, <<9>>),
     Hop2HopFragment(<<3, 0, 0, 0>>, 1, 1, <<LoRaWanProprietaryTag>>),
     Hop2HopFragment(<<2, 0, 0, 0>>, 3, 1, <<9>>),
     Hop2HopFragment(<<2, 0, 0, 0>>, 2, 2, <<9>>)}

\* The receiver_count() of bundles_to_ws when a packet is processed.
HopReceivers == {0, 1}

\* The receive buffer manager takes a hop 2 hop fragment from the uplink
\* dispatcher.
HopReceive(fragment, receivers) ==
    /\ hop_packets < MaxHopPackets
    /\ hop_packets' = hop_packets + 1
    /\ LET r == ProcessPacket(fragment, hop2hop_receive_buffers, bundles_to_ws, receivers)
       IN  /\ last_op' = Op("hop_receive", fragment, r.res, receivers)
           /\ hop2hop_receive_buffers' = r.bufs
           /\ bundles_to_ws' = r.ws
           /\ hop_combined' = r.combined
    /\ UNCHANGED <<now, reset_timeout, varsMqtt, varsPace, varsLocks, varsShutdown, varsCache, varsRouter, varsDuty, varsGateways,
                   message_cache, end_device_ids, bundle_receive_buffer_map, relay_tx,
                   uplink_task, uplinks, handled_at, uplink_tx_info, hop_fragments,
                   hop_sends>>

InitHopSpec ==
    /\ reset_timeout = FALSE
    /\ InitDispatcher /\ InitCache /\ InitRouter /\ InitDuty /\ InitHop /\ InitMqtt /\ NoPace /\ NoLocks /\ InitGateways /\ InitShutdown

NextHop ==
    \/ \E packet \in HopPackets, data_rate \in HopDataRates : HopSend(packet, data_rate)
    \/ \E i \in DOMAIN hop_fragments, receivers \in HopReceivers :
            HopReceive(hop_fragments[i], receivers)
    \/ \E fragment \in ForeignFragments, receivers \in HopReceivers :
            HopReceive(fragment, receivers)

SpecHop == InitHopSpec /\ [][NextHop]_vars

\* A step of the receive buffer manager.
HopReceiveStep == hop_packets' = hop_packets + 1

\* C11: when combining or decoding a complete receive buffer fails, the
\* buffer stays in the map under its key, so that a later fragment can retry.
C11_FailedCombineRetainsBuffer ==
    [][HopReceiveStep /\ last_op'.res = "combine_error"
       => last_op'.frame.packet_hash \in DOMAIN hop2hop_receive_buffers']_vars

\* C27: a hop 2 hop fragment that meets the buffer of its hash with another
\* total, with an index that is not below the buffer's total, or with an
\* index the buffer has received before, is rejected, and the buffer keeps
\* the fragments it had.
C27_RejectedFragmentLeavesBuffer ==
    [][HopReceiveStep
       => LET fragment == last_op'.frame
              key == fragment.packet_hash
          IN  key \in DOMAIN hop2hop_receive_buffers
              => LET buf == hop2hop_receive_buffers[key]
                 IN  \/ fragment.total_fragments # buf.total_fragments
                     \/ fragment.fragment_index >= buf.total_fragments
                     \/ fragment.fragment_index \in DOMAIN buf.received_fragments
                     => /\ last_op'.res = "process_error"
                        /\ ~Hop2HopProcessPacket(buf, fragment).ok
                        /\ key \in DOMAIN hop2hop_receive_buffers'
                        /\ hop2hop_receive_buffers'[key] = buf]_vars

\* A buffer that waits for the second of its two fragments has refused, as the
\* fourth packet of the manager, the fragment it holds already.
C27_Witness ==
    /\ last_op.op = "hop_receive"
    /\ last_op.res = "process_error"
    /\ hop_packets = 4
    /\ last_op.frame.packet_hash \in DOMAIN hop2hop_receive_buffers
    /\ LET buf == hop2hop_receive_buffers[last_op.frame.packet_hash]
       IN  /\ buf.total_fragments = 2
           /\ DOMAIN buf.received_fragments = {last_op.frame.fragment_index}
           /\ last_op.frame.total_fragments = 2

\* The state after a packet was handed to the fragmenter.
HopSent == last_op.op = "hop_send"

\* C12: for a packet of encoded length L and data rate D the fragmenter
\* emits ceil(L / M) fragments, M being the usable payload size of D less 8,
\* numbered 0 .. total - 1, every fragment but the last carrying M bytes, so
\* that every encoded fragment fits in the usable payload size of D.
C12_FragmentSizes ==
    HopSent
    => LET usable == DataRateMaxUsablePayloadSize(last_op.frame.data_rate)
           mtu == usable - 8
           length == Len(PhyPayloadBytes(last_op.frame.packet))
       IN  /\ Len(hop_fragments) = (length + mtu - 1) \div mtu
           /\ \A i \in DOMAIN hop_fragments :
                /\ hop_fragments[i].total_fragments = Len(hop_fragments)
                /\ hop_fragments[i].fragment_index = i - 1
                /\ i < Len(hop_fragments) => Len(hop_fragments[i].payload) = mtu
                /\ Len(PhyPayloadBytes(hop_fragments[i])) <= usable

\* The CRC-32 of the encoded bytes of each of the fragmenter's packets.
EncodedHashes ==
    {[packet |-> packet, packet_hash |-> Crc32(PhyPayloadBytes(packet))] :
        packet \in HopPackets}

\* A step of the fragmenter.
HopSendStep == hop_sends' = hop_sends + 1

\* The packet whose fragments carry the hash.
PacketOfHash(packet_hash) ==
    (CHOOSE f \in HopFragmentations : f.fragments[1].packet_hash = packet_hash).packet

\* The hashes of the fragmenter's packets.
OwnHashes == {f.fragments[1].packet_hash : f \in HopFragmentations}

\* The hashes the fragments of other senders are buffered under.
ForeignHashes == {f.packet_hash : f \in ForeignFragments}

\* The receive buffer manager with one packet fragmented for it and the
\* fragments of other senders.
NextBuffers ==
    \/ HopSend(CompleteBundle(9, 1, 12, Payload(44)), "Dr0")
    \/ \E i \in DOMAIN hop_fragments, receivers \in HopReceivers :
            HopReceive(hop_fragments[i], receivers)
    \/ \E fragment \in ForeignFragments, receivers \in HopReceivers :
            HopReceive(fragment, receivers)

\* The manager goes on taking the fragments the uplink dispatcher hands it
\* for as long as fragments arrive.
SpecBuffers ==
    InitHopSpec /\ [][NextBuffers]_vars /\ WF_<<hop_sends, hop_packets>>(NextBuffers)

\* C39: every hop 2 hop receive buffer is destroyed at some time, by a
\* reassembly or by a collection of buffers that have waited too long; stated
\* for the buffers of the fragments of other senders.
C39_BuffersEventuallyDestroyed ==
    \A packet_hash \in ForeignHashes :
        (packet_hash \in DOMAIN hop2hop_receive_buffers)
            ~> (packet_hash \notin DOMAIN hop2hop_receive_buffers)

\* The fragment is the only one its receive buffer still lacks, or the only
\* fragment of a packet that has no buffer.
LastMissing(fragment) ==
    LET key == fragment.packet_hash
        bufs == hop2hop_receive_buffers
    IN  IF key \in DOMAIN bufs
        THEN /\ bufs[key].total_fragments = fragment.total_fragments
             /\ fragment.fragment_index \notin DOMAIN bufs[key].received_fragments
             /\ DOMAIN bufs[key].received_fragments \cup {fragment.fragment_index}
                    = 0..(fragment.total_fragments - 1)
        ELSE fragment.total_fragments = 1

C15_ReassembledHandledAsNative ==
    [][/\ HopReceiveStep
       /\ last_op'.res = "combined"
       /\ hop_combined'.destination \notin end_device_ids
       => /\ bundles_to_ws' = bundles_to_ws
          /\ Len(relay_tx') = Len(relay_tx) + 1]_vars

(***************************************************************************)
(* The relay decision of the uplink dispatcher, with several tx_infos      *)
(***************************************************************************)
\* The tx_infos of the uplinks: the parameters of Dr0 and of Dr5, parameters
\* that are no data rate, and one without LoRa modulation parameters.
RelayTxInfos ==
    {LoraTxInfo(125000, 12), LoraTxInfo(125000, 7), LoraTxInfo(250000, 12), NoLoraTxInfo}

\* Whole bundles and first fragments for the local and the other destination.
RelayUplinkFrames ==
    {Frame("proprietary", 0, d, 1, 11, FALSE, 0, 0, <<1>>) : d \in Destinations}
    \cup {Frame("proprietary", 0, d, 2, 11, TRUE, 0, 2, FragmentPayload(2, 0)) :
            d \in Destinations}

InitRelay ==
    /\ reset_timeout = FALSE
    /\ InitDispatcher /\ InitCache /\ InitRouter /\ InitDuty /\ InitHop /\ InitMqtt /\ NoPace /\ NoLocks /\ InitGateways /\ InitShutdown

NextRelay ==
    \/ \E f \in RelayUplinkFrames, tx_info \in RelayTxInfos : UplinkProcess(f, tx_info, 1)
    \/ CollectRelay
    \/ TickUplink

SpecRelay == InitRelay /\ [][NextRelay]_vars

GatewayIds == {"gw1", "gw2"}

\* The loop of update_gateways at `if retry <= 3`, in the branch that awaits
\* request_gateway_ids: Ok replaces the set, resets retry and goes on to the
\* sleep; Err increments retry and starts the loop over without sleeping.
RequestGatewayIds(ok, ids) ==
    /\ gateway_pc = "request"
    /\ retry <= 3
    /\ requests < MaxRequests
    /\ requests' = requests + 1
    /\ IF ok
       THEN /\ gateway_ids' = ids
            /\ retry' = 0
            /\ gateway_pc' = "sleep"
            /\ last_op' = Op("request_gateway_ids", ids, "Ok", 0)
       ELSE /\ gateway_ids' = gateway_ids
            /\ retry' = retry + 1
            /\ gateway_pc' = "request"
            /\ last_op' = Op("request_gateway_ids", {}, "Err", 0)
    /\ UNCHANGED <<now, reset_timeout, varsMqtt, varsPace, varsLocks, varsShutdown, varsUplink, varsCache, varsRouter, varsDuty,
                   varsHop, shutdown, published, floods>>

\* The else branch: initiate_shutdown(GatewayRetrievalFailed), then on to the
\* select! of sleep and await_shutdown.
InitiateShutdown ==
    /\ gateway_pc = "request"
    /\ retry > 3
    /\ shutdown' = "GatewayRetrievalFailed"
    /\ gateway_pc' = "sleep"
    /\ last_op' = Op("initiate_shutdown", {}, "GatewayRetrievalFailed", 0)
    /\ UNCHANGED <<now, reset_timeout, varsMqtt, varsPace, varsLocks, varsShutdown, varsUplink, varsCache, varsRouter, varsDuty,
                   varsHop, gateway_ids, retry, requests, published, floods>>

\* The select! at the end of the loop: the task returns when a shutdown was
\* initiated and starts the loop over after update_interval otherwise.
GatewaySleep ==
    /\ gateway_pc = "sleep"
    /\ gateway_pc' = IF shutdown # None THEN "returned" ELSE "request"
    /\ UNCHANGED <<now, reset_timeout, varsMqtt, varsPace, varsLocks, varsShutdown, last_op, varsUplink, varsCache, varsRouter,
                   varsDuty, varsHop, gateway_ids, retry, shutdown, requests,
                   published, floods>>

\* create_downlink_item: the builder's check_payload_size is the one check
\* that can fail for the parameters flooding passes.
CreateDownlinkItem(payload, data_rate) ==
    IF Len(payload) > DataRateMaxAllowedPayloadSize(data_rate)
    THEN [ok |-> FALSE, err |-> "PayloadTooBig"]
    ELSE [ok |-> TRUE, item |-> [phy_payload |-> payload, data_rate |-> data_rate]]

\* A loop over the gateways that ends at a failed publish.
FloodAttemptsAbort(ids, item, outcome) ==
    IF \E g \in ids : outcome[g] # "Ok"
    THEN LET g == CHOOSE h \in ids : outcome[h] # "Ok"
         IN  {[gateway_id |-> g, item |-> item, res |-> outcome[g]]}
    ELSE {[gateway_id |-> g, item |-> item, res |-> outcome[g]] : g \in ids}

\* The for loop of flooding over the gateway ids: a downlink is created and
\* handed to Runtime::try_enqueue for each, whatever the earlier results.
FloodAttempts(ids, item, outcome) ==
    {[gateway_id |-> g, item |-> item, res |-> outcome[g]] : g \in ids}

\* The payloads handed to flooding: encoded packets of 58, 64 and 100 bytes.
FloodPayloads == {Payload(58), Payload(64), Payload(100)}

\* The data rates handed to flooding.
FloodDataRates == {"Dr0", "Dr3"}

\* What Runtime::try_enqueue answers: Ok, or an error when the runtime was
\* stopped or try_publish failed.
EnqueueResults == {"Ok", "Err"}

\* Flooding::flooding: the downlink item is built once, then one downlink
\* per gateway id in the set is enqueued; outcome gives the result of
\* try_enqueue for each gateway.
Flooding(payload, data_rate, outcome) ==
    /\ floods < MaxFloods
    /\ floods' = floods + 1
    /\ LET built == CreateDownlinkItem(payload, data_rate)
           call == [phy_payload |-> payload, data_rate |-> data_rate]
       IN  IF built.ok
           THEN /\ published' = FloodAttempts(gateway_ids, built.item, outcome)
                /\ last_op' = Op("flooding", call, "Ok", 0)
           ELSE /\ published' = {}
                /\ last_op' = Op("flooding", call, built.err, 0)
    /\ UNCHANGED <<now, reset_timeout, varsMqtt, varsPace, varsLocks, varsShutdown, varsUplink, varsCache, varsRouter, varsDuty,
                   varsHop, gateway_ids, retry, gateway_pc, shutdown, requests>>

InitGatewaysSpec ==
    /\ reset_timeout = FALSE
    /\ InitDispatcher /\ InitCache /\ InitRouter /\ InitDuty /\ InitHop /\ InitMqtt /\ NoPace /\ NoLocks /\ InitGateways /\ InitShutdown

NextGateways ==
    \/ \E ids \in SUBSET GatewayIds : RequestGatewayIds(TRUE, ids)
    \/ RequestGatewayIds(FALSE, {})
    \/ InitiateShutdown
    \/ GatewaySleep
    \/ \E payload \in FloodPayloads, data_rate \in FloodDataRates,
          outcome \in [gateway_ids -> EnqueueResults] :
            Flooding(payload, data_rate, outcome)

SpecGateways == InitGatewaysSpec /\ [][NextGateways]_vars

\* A call of Flooding::flooding.
FloodStep == floods' = floods + 1

\* C14: no frame longer than the usable payload size of its data rate is
\* handed to the publish adapter, and a packet that is longer is flooded as
\* hop 2 hop fragments, so that with gateways known something is published
\* for it.
C14_OverlongPacketsFragmented ==
    [][FloodStep
       => LET call == last_op'.frame
          IN  /\ \A a \in published' :
                    Len(a.item.phy_payload)
                        <= DataRateMaxUsablePayloadSize(a.item.data_rate)
              /\ (/\ Len(call.phy_payload) > DataRateMaxUsablePayloadSize(call.data_rate)
                  /\ gateway_ids # {})
                 => /\ published' # {}
                    /\ \A a \in published' :
                          ParsePacket(a.item.phy_payload).ok
                          /\ ParsePacket(a.item.phy_payload).packet.packet_type
                                = "Hop2HopFragment"]_vars

\* C17: a flood makes one publish attempt for every gateway id that is in
\* the set of gateway ids at the time of the flood and for no other, whether
\* or not the attempts for other gateways fail.
C17_OneAttemptPerGateway ==
    [][FloodStep /\ last_op'.res = "Ok"
       => /\ {a.gateway_id : a \in published'} = gateway_ids
          /\ Cardinality(published') = Cardinality(gateway_ids)
          /\ \A a \in published' : a.item.phy_payload = last_op'.frame.phy_payload]_vars

\* A flood over two gateways whose publish failed for one gateway and
\* succeeded for the other.
C17_Witness ==
    /\ last_op.op = "flooding"
    /\ gateway_ids = GatewayIds
    /\ \E a, b \in published :
          a.gateway_id # b.gateway_id /\ a.res = "Err" /\ b.res = "Ok"

\* C20: the gateway ids manager initiates the shutdown when three consecutive
\* requests have failed: it makes no further request then, and it initiates
\* a shutdown in no other situation.
C20_ShutdownAfterThreeFailures ==
    [][/\ requests' = requests + 1 => retry < 3
       /\ (shutdown = None /\ shutdown' # None)
          => retry = 3 /\ shutdown' = "GatewayRetrievalFailed"]_vars

(***************************************************************************)
(* The router's delay and the order of the relay queue                     *)
(***************************************************************************)
\* The step is the relay block of the router, at the top of its loop.
RouterCheckRelayStep ==
    /\ router_pc = "sleep"
    /\ last_op'.op = "check_relay"
    /\ \/ router_pc' = "send_buffers"
       \/ Len(relay_packet_queue') < Len(relay_packet_queue)

\* C18: the router begins a pass of its loop without the delay when its
\* last pass ended with an error of the send buffer step, and with the delay
\* after every other pass: one that flooded a packet, one that found both
\* queues empty, and at the start.
C18_DelaySkippedAfterError ==
    [][RouterCheckRelayStep => (slept' <=> ~tick_error)]_vars

\* The router began a pass without the delay, the send buffer step of its
\* last pass having failed.
C18_Witness ==
    /\ last_op.op = "check_relay"
    /\ ~slept
    /\ bundles > 0

\* A router whose relay queue has room for one packet more.
InitRelayQueue ==
    /\ reset_timeout = FALSE
    /\ max_relay_packets = MaxRelayPackets + 1
    /\ InitDispatcher /\ InitCache /\ InitRouterQueues /\ InitDuty /\ InitHop /\ InitMqtt /\ NoPace /\ NoLocks
    /\ InitGateways /\ InitShutdown

NextRelayQueue ==
    \/ \E f \in RelayFrames : UplinkProcess(f, LoraTxInfo(125000, 7), 0)
    \/ CollectRelay
    \/ RouterCheckRelay
    \/ RouterNextPayload

SpecRelayQueue == InitRelayQueue /\ [][NextRelayQueue]_vars

\* C19: the router floods the relay item that was queued last: the relay
\* block takes the last item of the queue, to which the collector appends,
\* and leaves the items queued before it in place.
C19_RelayQueueLifo ==
    [][RouterCheckRelayStep /\ relay_packet_queue # <<>>
       => LET newest == relay_packet_queue[Len(relay_packet_queue)]
          IN  /\ last_op'.res = "flooded"
              /\ last_op'.frame = ConvertToLorawanPhyPayload(newest.packet)
              /\ relay_packet_queue'
                    = SubSeq(relay_packet_queue, 1, Len(relay_packet_queue) - 1)]_vars

\* The router flooded a relay item while an item queued before it stayed in
\* the queue.
C19_Witness ==
    /\ last_op.op = "check_relay"
    /\ last_op.res = "flooded"
    /\ relay_packet_queue # <<>>
    /\ last_op.frame # ConvertToLorawanPhyPayload(relay_packet_queue[1].packet)

(***************************************************************************)
(* Graceful shutdown (graceful_shutdown.rs)                                *)
(***************************************************************************)
\* enum ShutdownConditions
ShutdownConditions ==
    {"Panic", "MqttError", "GatewayRetrievalFailed", "AxumStartFailed", "Restart"}

\* The capacity ShutdownGenerator::new gives the condition channel.
ConditionChannelCapacity == 1

\* The timeout the main loop hands to await_complete_shutdown, in seconds.
ShutdownTimeoutSecs == 15

\* The agents that exist: each holds a notify receiver and a sender of the
\* complete indicator channel.
AliveAgents(ags) == {a \in DOMAIN ags : ags[a].state = "alive"}

\* watch::Sender::receiver_count of the notify channel.
ReceiverCount(ags) == Cardinality(AliveAgents(ags))

\* A complete indicator channel of which the controller keeps a sender.
CompleteSendersKept(gen, ags) == 1 + Cardinality(AliveAgents(ags))

\* The senders of the complete indicator channel: the generator's own, which
\* generate_control drops with the generator, and one per agent.
CompleteSenders(gen, ags) ==
    (IF gen THEN 1 ELSE 0) + Cardinality(AliveAgents(ags))

\* mpsc::Sender::try_send on a channel of the given capacity.
MpscTrySend(chan, capacity, item) ==
    IF Len(chan) >= capacity THEN [ok |-> FALSE, chan |-> chan]
    ELSE [ok |-> TRUE, chan |-> Append(chan, item)]

\* generate_agent: ShutdownAgent::new with a receiver subscribed now, which
\* has seen the current version of the notify channel.
NewShutdownAgent(version) ==
    [UnbornAgent EXCEPT !.state = "alive", !.seen = version]

\* #[derive(Clone)]: the flag, the receiver with the version it has seen and
\* the senders are cloned.
CloneShutdownAgent(agent) ==
    [agent EXCEPT !.awaiting = FALSE, !.returns = 0, !.at_notify = "absent"]

\* watch::Receiver::changed is ready when the channel's version is not the one
\* the receiver has seen.
WatchChanged(seen, version) == seen # version

\* An await_shutdown that does not set the agent's flag.
AwaitShutdownForgets(agent, version) ==
    IF agent.shutdown THEN [ready |-> TRUE, agent |-> agent]
    ELSE IF WatchChanged(agent.seen, version)
    THEN [ready |-> TRUE, agent |-> [agent EXCEPT !.seen = version]]
    ELSE [ready |-> FALSE, agent |-> agent]

\* ShutdownAgent::await_shutdown, polled once: whether it returns, and the
\* agent it leaves.
AwaitShutdown(agent, version) ==
    IF agent.shutdown THEN [ready |-> TRUE, agent |-> agent]
    ELSE IF WatchChanged(agent.seen, version)
    THEN [ready |-> TRUE, agent |-> [agent EXCEPT !.seen = version, !.shutdown = TRUE]]
    ELSE [ready |-> FALSE, agent |-> agent]

\* The id the next agent gets.
NextAgentId == Min({a \in AgentIds : agents[a].state = "unborn"})

\* ShutdownGenerator::generate_agent
GenerateAgent ==
    /\ generator
    /\ \E a \in AgentIds : agents[a].state = "unborn"
    /\ agents' = [agents EXCEPT ![NextAgentId] = NewShutdownAgent(notify_version)]
    /\ UNCHANGED <<now, reset_timeout, varsMqtt, varsPace, varsLocks, last_op, varsUplink, varsCache, varsRouter,
                   varsDuty, varsHop, varsGateways, tasks, flood_tasks, generator, notify_version,
                   condition_channel, conditions_sent, conditions_received,
                   controller_pc, wait_elapsed, wait_ended_by>>

\* ShutdownGenerator::generate_control consumes the generator: the controller
\* takes the notify sender and the two receivers, the generator's condition
\* sender and complete indicator sender are dropped.
GenerateControl ==
    /\ generator
    /\ generator' = FALSE
    /\ controller_pc' = "select"
    /\ UNCHANGED <<now, reset_timeout, varsMqtt, varsPace, varsLocks, last_op, varsUplink, varsCache, varsRouter,
                   varsDuty, varsHop, varsGateways, tasks, flood_tasks, agents, notify_version,
                   condition_channel, conditions_sent, conditions_received,
                   wait_elapsed, wait_ended_by>>

\* ShutdownAgent::clone
CloneAgent(a) ==
    /\ agents[a].state = "alive"
    /\ \E b \in AgentIds : agents[b].state = "unborn"
    /\ agents' = [agents EXCEPT ![NextAgentId] = CloneShutdownAgent(agents[a])]
    /\ UNCHANGED <<now, reset_timeout, varsMqtt, varsPace, varsLocks, last_op, varsUplink, varsCache, varsRouter,
                   varsDuty, varsHop, varsGateways, tasks, flood_tasks, generator, notify_version,
                   condition_channel, conditions_sent, conditions_received,
                   controller_pc, wait_elapsed, wait_ended_by>>

\* The agent is dropped, and with it its receiver and its senders.
DropAgent(a) ==
    /\ agents[a].state = "alive"
    /\ agents' = [agents EXCEPT ![a] = [UnbornAgent EXCEPT !.state = "dropped"]]
    /\ UNCHANGED <<now, reset_timeout, varsMqtt, varsPace, varsLocks, last_op, varsUplink, varsCache, varsRouter,
                   varsDuty, varsHop, varsGateways, tasks, flood_tasks, generator, notify_version,
                   condition_channel, conditions_sent, conditions_received,
                   controller_pc, wait_elapsed, wait_ended_by>>

\* ShutdownAgent::initiate_shutdown: try_send of the reason, then the agent's
\* own flag is set.
AgentInitiateShutdown(a, reason) ==
    /\ agents[a].state = "alive"
    /\ Len(conditions_sent) < MaxConditions
    /\ conditions_sent' = Append(conditions_sent, reason)
    /\ condition_channel'
         = MpscTrySend(condition_channel, ConditionChannelCapacity, reason).chan
    /\ agents' = [agents EXCEPT ![a].shutdown = TRUE]
    /\ UNCHANGED <<now, reset_timeout, varsMqtt, varsPace, varsLocks, last_op, varsUplink, varsCache, varsRouter,
                   varsDuty, varsHop, varsGateways, tasks, flood_tasks, generator, notify_version,
                   conditions_received, controller_pc, wait_elapsed, wait_ended_by>>

\* ShutdownInitiator::initiate_shutdown: try_send of the reason.
InitiatorInitiateShutdown(reason) ==
    /\ Len(conditions_sent) < MaxConditions
    /\ conditions_sent' = Append(conditions_sent, reason)
    /\ condition_channel'
         = MpscTrySend(condition_channel, ConditionChannelCapacity, reason).chan
    /\ UNCHANGED <<now, reset_timeout, varsMqtt, varsPace, varsLocks, last_op, varsUplink, varsCache, varsRouter,
                   varsDuty, varsHop, varsGateways, tasks, flood_tasks, generator, agents, notify_version,
                   conditions_received, controller_pc, wait_elapsed, wait_ended_by>>

\* A task polls await_shutdown on its agent: the call returns, or the task
\* is left awaiting.
AwaitShutdownPoll(a) ==
    /\ agents[a].state = "alive"
    /\ agents[a].returns < MaxReturns
    /\ LET r == AwaitShutdown(agents[a], notify_version)
       IN  agents' = [agents EXCEPT ![a] =
                        IF r.ready
                        THEN [r.agent EXCEPT !.awaiting = FALSE, !.returns = @ + 1]
                        ELSE [r.agent EXCEPT !.awaiting = TRUE]]
    /\ UNCHANGED <<now, reset_timeout, varsMqtt, varsPace, varsLocks, last_op, varsUplink, varsCache, varsRouter,
                   varsDuty, varsHop, varsGateways, tasks, flood_tasks, generator, notify_version,
                   condition_channel, conditions_sent, conditions_received,
                   controller_pc, wait_elapsed, wait_ended_by>>

\* Another branch of the task's select! completes first and the pending
\* await_shutdown future is dropped.
AwaitShutdownCancel(a) ==
    /\ agents[a].state = "alive"
    /\ agents[a].awaiting
    /\ agents' = [agents EXCEPT ![a].awaiting = FALSE]
    /\ UNCHANGED <<now, reset_timeout, varsMqtt, varsPace, varsLocks, last_op, varsUplink, varsCache, varsRouter,
                   varsDuty, varsHop, varsGateways, tasks, flood_tasks, generator, notify_version,
                   condition_channel, conditions_sent, conditions_received,
                   controller_pc, wait_elapsed, wait_ended_by>>

\* ShutdownController::start_shutdown: a send on the notify channel when it
\* has a receiver; the agents that exist are marked with what they were doing.
StartShutdown ==
    IF ReceiverCount(agents) > 0
    THEN /\ notify_version' = notify_version + 1
         /\ agents' = [a \in DOMAIN agents |->
                         IF agents[a].state = "alive"
                         THEN [agents[a] EXCEPT !.at_notify =
                                 IF agents[a].awaiting THEN "awaiting" ELSE "idle"]
                         ELSE agents[a]]
    ELSE UNCHANGED <<notify_version, agents>>

\* The main loop: a trigger, Ctrl-C or a condition taken from the condition
\* channel by await_shutdown_initiation, then start_shutdown, then the wait
\* for completion begins.
MainLoopTrigger(ctrl_c) ==
    /\ controller_pc = "select"
    /\ IF ctrl_c
       THEN UNCHANGED <<condition_channel, conditions_received>>
       ELSE /\ condition_channel # <<>>
            /\ conditions_received' = Append(conditions_received, Head(condition_channel))
            /\ condition_channel' = Tail(condition_channel)
    /\ StartShutdown
    /\ controller_pc' = "waiting"
    /\ wait_elapsed' = 0
    /\ UNCHANGED <<now, reset_timeout, varsMqtt, varsPace, varsLocks, last_op, varsUplink, varsCache, varsRouter,
                   varsDuty, varsHop, varsGateways, tasks, flood_tasks, generator, conditions_sent,
                   wait_ended_by>>

\* Which branches of the select! in await_complete_shutdown are ready: recv()
\* of the complete indicator channel yields None once it has no sender, the
\* sleep is over after timeout_secs.
AwaitCompleteReady(timeout_secs) ==
    {b \in {"closed", "timeout"} :
        \/ b = "closed" /\ CompleteSenders(generator, agents) = 0
        \/ b = "timeout" /\ wait_elapsed >= timeout_secs}

\* ShutdownController::await_complete_shutdown returns.
AwaitCompleteShutdown(timeout_secs) ==
    /\ controller_pc = "waiting"
    /\ \E b \in AwaitCompleteReady(timeout_secs) : wait_ended_by' = b
    /\ controller_pc' = "done"
    /\ UNCHANGED <<now, reset_timeout, varsMqtt, varsPace, varsLocks, last_op, varsUplink, varsCache, varsRouter,
                   varsDuty, varsHop, varsGateways, tasks, flood_tasks, generator, agents, notify_version,
                   condition_channel, conditions_sent, conditions_received,
                   wait_elapsed>>

\* The seconds that pass in one step of the clock.
WaitSteps == {5, 10}

\* Time passes while the controller waits and no branch of its select! is
\* ready.
TickShutdown(timeout_secs) ==
    /\ controller_pc = "waiting"
    /\ AwaitCompleteReady(timeout_secs) = {}
    /\ \E d \in WaitSteps :
         /\ wait_elapsed + d <= timeout_secs
         /\ wait_elapsed' = wait_elapsed + d
    /\ UNCHANGED <<now, reset_timeout, varsMqtt, varsPace, varsLocks, last_op, varsUplink, varsCache, varsRouter,
                   varsDuty, varsHop, varsGateways, tasks, flood_tasks, generator, agents, notify_version,
                   condition_channel, conditions_sent, conditions_received,
                   controller_pc, wait_ended_by>>

\* The conditions the components submit: the REST restart handler through an
\* initiator, the MQTT error listener through an agent.
InitiatorConditions == {"Restart"}
AgentConditions == {"MqttError"}

InitShutdownSpec ==
    /\ reset_timeout = FALSE
    /\ InitDispatcher /\ InitCache /\ InitRouter /\ InitDuty /\ InitHop /\ InitMqtt /\ NoPace /\ NoLocks /\ InitGateways /\ InitShutdown

NextShutdown ==
    \/ GenerateAgent
    \/ GenerateControl
    \/ \E a \in AgentIds : CloneAgent(a)
    \/ \E a \in AgentIds : DropAgent(a)
    \/ \E a \in AgentIds, reason \in AgentConditions : AgentInitiateShutdown(a, reason)
    \/ \E reason \in InitiatorConditions : InitiatorInitiateShutdown(reason)
    \/ \E a \in AgentIds : AwaitShutdownPoll(a)
    \/ \E a \in AgentIds : AwaitShutdownCancel(a)
    \/ \E ctrl_c \in BOOLEAN : MainLoopTrigger(ctrl_c)
    \/ AwaitCompleteShutdown(ShutdownTimeoutSecs)
    \/ TickShutdown(ShutdownTimeoutSecs)

SpecShutdown == InitShutdownSpec /\ [][NextShutdown]_vars

\* C21: while the controller waits for completion, time passes only as long
\* as an agent is still held and the 15 seconds are not over: the wait is
\* ready to end once every agent, clones included, has been dropped, and
\* once 15 seconds have passed whatever the agents do.
C21_WaitEndsOnDropOrTimeout ==
    [][controller_pc = "waiting"
       => /\ wait_elapsed' > wait_elapsed
               => /\ AliveAgents(agents) # {}
                  /\ wait_elapsed < ShutdownTimeoutSecs
          /\ wait_elapsed' <= ShutdownTimeoutSecs
          /\ AliveAgents(agents) = {} \/ wait_elapsed = ShutdownTimeoutSecs
               => AwaitCompleteReady(ShutdownTimeoutSecs) # {}]_vars

\* The wait ended before its timeout because the last agent was dropped
\* while the controller was waiting.
C21_Witness ==
    /\ controller_pc = "done"
    /\ wait_ended_by = "closed"
    /\ wait_elapsed > 0
    /\ wait_elapsed < ShutdownTimeoutSecs
    /\ notify_version > 0

\* C22: every condition handed to initiate_shutdown, of an initiator or of an
\* agent, is received by the controller or waits in the condition channel, in
\* the order of submission.
C22_EveryConditionDelivered ==
    conditions_sent = conditions_received \o condition_channel

\* C24: await_shutdown is ready to return on every agent that existed when
\* notify was sent, whether it was awaiting then or not, and on every agent
\* on which it has returned before.
C24_NotifiedAgentsReturn ==
    \A a \in AgentIds :
        /\ agents[a].state = "alive"
        /\ agents[a].at_notify # "absent" \/ agents[a].returns > 0
        => AwaitShutdown(agents[a], notify_version).ready

\* An agent that was not awaiting when notify was sent has since returned from
\* await_shutdown twice.
C24_Witness ==
    \E a \in AgentIds :
        /\ agents[a].state = "alive"
        /\ agents[a].at_notify = "idle"
        /\ agents[a].returns >= 2

(***************************************************************************)
(* The long-running tasks and their shutdown agents (app_start.rs)         *)
(***************************************************************************)
\* The tasks that take items from an mpsc channel in a select! against their
\* agent: collect_send_items_task, downlink_duty_cycle_collector_task and
\* bundles_processor_task.
ChannelTasks == {"queue_collector", "duty_cycle_collector", "bundle_processor"}

\* The awaits of each task at which it polls await_shutdown on its agent.
\* uplink_processor_task takes no agent: its only await is recv() on the
\* uplink channel.
ShutdownPoints(t) ==
    CASE t = "gateway_manager" -> {"request", "sleep"}
      [] t = "uplink_processor" -> {}
      [] OTHER -> {"select"}

\* The agents start_app hands to the tasks; uplink_processor_task holds none.
TaskAgent(t) ==
    IF ShutdownPoints(t) = {} THEN UnbornAgent ELSE NewShutdownAgent(0)

UnchangedController ==
    UNCHANGED <<generator, notify_version, condition_channel, conditions_sent,
                conditions_received, controller_pc, wait_elapsed, wait_ended_by>>

UnchangedOutsideShutdown ==
    UNCHANGED <<now, reset_timeout, varsMqtt, varsPace, varsLocks, last_op, varsUplink, varsCache, varsRouter,
                varsDuty, varsHop, varsGateways, flood_tasks>>

\* A task's select! completes with an item of its work channel and the task
\* handles it; the pending await_shutdown future is dropped.
TaskTakeInput(t) ==
    /\ t \in ChannelTasks
    /\ tasks[t].pc = "select"
    /\ tasks[t].inputs > 0
    /\ tasks' = [tasks EXCEPT ![t].inputs = @ - 1]
    /\ UNCHANGED agents
    /\ UnchangedController /\ UnchangedOutsideShutdown

\* uplink_processor_task: `while let Some(..) = uplink_receiver.recv().await`
\* takes an uplink and processes it.
UplinkTakeInput ==
    /\ tasks["uplink_processor"].pc = "recv"
    /\ tasks["uplink_processor"].inputs > 0
    /\ tasks' = [tasks EXCEPT !["uplink_processor"].inputs = @ - 1]
    /\ UNCHANGED agents
    /\ UnchangedController /\ UnchangedOutsideShutdown

\* cache_clean_task: the sleep of the select! is over.
SweeperSleepOver ==
    /\ tasks["cache_sweeper"].pc = "select"
    /\ tasks' = [tasks EXCEPT !["cache_sweeper"].pc = "sweep"]
    /\ UNCHANGED agents
    /\ UnchangedController /\ UnchangedOutsideShutdown

\* cache_clean_task: remove_expired_packets, then the select! again.
SweeperSweep ==
    /\ tasks["cache_sweeper"].pc = "sweep"
    /\ tasks' = [tasks EXCEPT !["cache_sweeper"].pc = "select"]
    /\ UNCHANGED agents
    /\ UnchangedController /\ UnchangedOutsideShutdown

\* routing_task: the sleep of the select! is over.
RouterSleepOver ==
    /\ tasks["router"].pc = "select"
    /\ tasks' = [tasks EXCEPT !["router"].pc = "pass"]
    /\ UNCHANGED agents
    /\ UnchangedController /\ UnchangedOutsideShutdown

\* routing_task: the rest of a pass. It floods a queued item, finds both
\* queues empty, or fails on a queued send buffer; after a failure skip_delay
\* takes it into the next pass without the select!.
RouterPass(outcome) ==
    /\ tasks["router"].pc = "pass"
    /\ outcome # "NoSendBufferInQueue" => tasks["router"].inputs > 0
    /\ tasks' = [tasks EXCEPT
                   !["router"].inputs = IF outcome = "NoSendBufferInQueue" THEN @ ELSE @ - 1,
                   !["router"].pc = IF SkipDelayAfter(outcome) THEN "pass" ELSE "select"]
    /\ UNCHANGED agents
    /\ UnchangedController /\ UnchangedOutsideShutdown

\* What a pass of the router ends with.
RouterOutcomes == {"Ok", "NoSendBufferInQueue", "NoRemainingFragments"}

\* update_gateways: the request completes and the task goes on to its sleep.
GatewayRequestDone ==
    /\ tasks["gateway_manager"].pc = "request"
    /\ tasks' = [tasks EXCEPT !["gateway_manager"].pc = "sleep"]
    /\ UNCHANGED agents
    /\ UnchangedController /\ UnchangedOutsideShutdown

\* update_gateways: the update interval is over.
GatewaySleepOver ==
    /\ tasks["gateway_manager"].pc = "sleep"
    /\ tasks' = [tasks EXCEPT !["gateway_manager"].pc = "request"]
    /\ UNCHANGED agents
    /\ UnchangedController /\ UnchangedOutsideShutdown

\* The await_shutdown branch of a task's select! completes: the task returns
\* and its agent is dropped.
TaskShutdown(t) ==
    /\ tasks[t].pc \in ShutdownPoints(t)
    /\ AwaitShutdown(agents[t], notify_version).ready
    /\ tasks' = [tasks EXCEPT ![t] = [pc |-> "returned", inputs |-> 0]]
    /\ agents' = [agents EXCEPT ![t] = [UnbornAgent EXCEPT !.state = "dropped"]]
    /\ UnchangedController /\ UnchangedOutsideShutdown

\* The state start_app leaves: the controller exists and every task is
\* spawned with its clone of the agent.
InitTasks ==
    /\ reset_timeout = FALSE
    /\ InitDispatcher /\ InitCache /\ InitRouter /\ InitDuty /\ InitHop /\ InitMqtt /\ NoPace /\ NoLocks
    /\ InitGateways
    /\ generator = FALSE
    /\ agents = [t \in TaskNames |-> TaskAgent(t)]
    /\ notify_version = 0
    /\ condition_channel = <<>>
    /\ conditions_sent = <<>>
    /\ conditions_received = <<>>
    /\ controller_pc = "select"
    /\ wait_elapsed = 0
    /\ wait_ended_by = None
    /\ tasks = [t \in TaskNames |-> SpawnedTask(t)]
    /\ flood_tasks = NoFloodTasks

NextTasks ==
    \/ \E t \in ChannelTasks : TaskTakeInput(t)
    \/ UplinkTakeInput
    \/ SweeperSleepOver
    \/ SweeperSweep
    \/ RouterSleepOver
    \/ \E outcome \in RouterOutcomes : RouterPass(outcome)
    \/ GatewayRequestDone
    \/ GatewaySleepOver
    \/ \E t \in TaskNames : TaskShutdown(t)
    \/ MainLoopTrigger(TRUE)
    \/ AwaitCompleteShutdown(ShutdownTimeoutSecs)
    \/ TickShutdown(ShutdownTimeoutSecs)

\* tokio's select! takes one of its ready branches at random, so a branch
\* that is ready again and again is taken; a task that is not awaiting runs
\* on to its next await, and so does the controller.
SpecTasks ==
    /\ InitTasks /\ [][NextTasks]_vars
    /\ \A t \in TaskNames : SF_vars(TaskShutdown(t))
    /\ WF_vars(\E outcome \in RouterOutcomes : RouterPass(outcome))
    /\ WF_vars(SweeperSweep)
    /\ WF_vars(AwaitCompleteShutdown(ShutdownTimeoutSecs))

\* C23: once the controller has sent notify, every long-running task
\* eventually returns and drops its agent, whether or not its work channel
\* hands it anything more.
C23_TasksStopAfterNotify ==
    notify_version > 0 ~> \A t \in TaskNames : tasks[t].pc = "returned"

(***************************************************************************)
(* The flooding tasks of the router (routing/flooding.rs)                  *)
(***************************************************************************)
\* What the router floods: a relay packet popped from the relay queue or the
\* next payload of a send buffer.
EmittedKinds == {"relay", "send_buffer"}

\* routing_task, one pass that floods: after its delay the router takes a
\* payload and hands it to a new task, tokio::spawn(Self::flooding(..)), and
\* goes on with its loop without awaiting the task.
RouterSpawnFlooding(kind) ==
    /\ Len(flood_tasks.emitted) < MaxEmitted
    /\ LET n == Len(flood_tasks.emitted) + 1
       IN  flood_tasks' = [flood_tasks EXCEPT
                             !.emitted = Append(@, [seq |-> n, kind |-> kind]),
                             !.spawned = @ \cup {n}]
    /\ UNCHANGED <<now, reset_timeout, varsMqtt, varsPace, varsLocks, last_op, varsUplink, varsCache, varsRouter,
                   varsDuty, varsHop, varsGateways, generator, agents, notify_version,
                   condition_channel, conditions_sent, conditions_received,
                   controller_pc, wait_elapsed, wait_ended_by, tasks>>

\* flooding, from its first poll to its only await: the runtime polls a
\* spawned task, which creates its downlink item and asks for the lock of the
\* gateway ids; the mutex serves its waiters in the order they asked.
FloodingLock(n) ==
    /\ n \in flood_tasks.spawned
    /\ flood_tasks' = [flood_tasks EXCEPT !.spawned = @ \ {n},
                                          !.lock_queue = Append(@, n)]
    /\ UNCHANGED <<now, reset_timeout, varsMqtt, varsPace, varsLocks, last_op, varsUplink, varsCache, varsRouter,
                   varsDuty, varsHop, varsGateways, generator, agents, notify_version,
                   condition_channel, conditions_sent, conditions_received,
                   controller_pc, wait_elapsed, wait_ended_by, tasks>>

\* flooding, with the lock: the loop over the gateway ids has no await, the
\* task hands its frame to try_enqueue, and that to try_publish, for every
\* gateway and releases the lock.
FloodingPublish ==
    /\ flood_tasks.lock_queue # <<>>
    /\ LET n == Head(flood_tasks.lock_queue)
       IN  flood_tasks' = [flood_tasks EXCEPT
                             !.lock_queue = Tail(@),
                             !.handed = [g \in DOMAIN @ |->
                                           IF g \in gateway_ids
                                           THEN Append(@[g], flood_tasks.emitted[n])
                                           ELSE @[g]]]
    /\ UNCHANGED <<now, reset_timeout, varsMqtt, varsPace, varsLocks, last_op, varsUplink, varsCache, varsRouter,
                   varsDuty, varsHop, varsGateways, generator, agents, notify_version,
                   condition_channel, conditions_sent, conditions_received,
                   controller_pc, wait_elapsed, wait_ended_by, tasks>>

\* The router with the gateway ids of both gateways known.
InitFlooding ==
    /\ reset_timeout = FALSE
    /\ InitDispatcher /\ InitCache /\ InitRouter /\ InitDuty /\ InitHop /\ InitMqtt /\ NoPace /\ NoLocks /\ InitShutdown
    /\ gateway_ids = GatewayIds
    /\ retry = 0
    /\ gateway_pc = "request"
    /\ shutdown = None
    /\ requests = 0
    /\ published = {}
    /\ floods = 0

NextFlooding ==
    \/ \E kind \in EmittedKinds : RouterSpawnFlooding(kind)
    \/ \E n \in 1..MaxEmitted : FloodingLock(n)
    \/ FloodingPublish

SpecFlooding == InitFlooding /\ [][NextFlooding]_vars

\* C25: the frames handed to try_publish for one gateway are in the order in
\* which the router emitted them.
C25_PublishedInEmissionOrder ==
    \A g \in GatewayIds :
        \A i, j \in 1..Len(flood_tasks.handed[g]) :
            i < j => flood_tasks.handed[g][i].seq < flood_tasks.handed[g][j].seq

(***************************************************************************)
(* BundleFragment::new (lorawan_protocol.rs)                               *)
(***************************************************************************)
\* BundleFragment::new on the caller's payload vector: the packet and what is
\* left in the vector, an error, or a panic. payload.drain(..payload_size)
\* panics when payload_size is larger than the length of the vector.
BundleFragmentNew(destination, source, timestamp, is_end, fragment_index, payload, data_rate) ==
    LET payload_size == DataRateMaxUsablePayloadSize(data_rate) - BundleFragmentHeadersSize
    IN  IF payload = <<>> THEN [ok |-> FALSE, err |-> "PayloadEmpty", rest |-> payload]
        ELSE IF payload_size >= Len(payload) /\ ~is_end
        THEN [ok |-> FALSE, err |-> "PayloadNotFilledCompletely", rest |-> payload]
        ELSE IF payload_size > Len(payload)
        THEN [ok |-> FALSE, err |-> "panic", rest |-> payload]
        ELSE [ok |-> TRUE,
              packet |-> [packet_type |-> IF is_end THEN "BundleFragmentEnd"
                                          ELSE "BundleFragment",
                          destination |-> destination, source |-> source,
                          timestamp |-> timestamp, is_end |-> is_end,
                          fragment_index |-> fragment_index,
                          payload |-> SubSeq(payload, 1, payload_size)],
              rest |-> SubSeq(payload, payload_size + 1, Len(payload))]

\* The lengths of the payload that remains in a send buffer: none, less than,
\* exactly and more than a fragment holds at Dr0 and at Dr3.
RemainingLens == {0, 1, 30, 49, 50, 51, 80, 113, 114, 115}

\* The data rates a fragment is built for.
FragmentDataRates == {"Dr0", "Dr3"}

\* A call of BundleFragment::new for the next packet of a bundle.
BundleFragmentNewCall(is_end, fragment_index, len, data_rate) ==
    /\ last_op' = Op("bundle_fragment_new",
                     [is_end |-> is_end, fragment_index |-> fragment_index,
                      payload |-> Payload(len), data_rate |-> data_rate],
                     BundleFragmentNew(9, 7, 21, is_end, fragment_index, Payload(len),
                                       data_rate),
                     0)
    /\ UNCHANGED <<now, reset_timeout, varsMqtt, varsPace, varsLocks, varsShutdown, varsUplink, varsCache, varsRouter,
                   varsDuty, varsHop, varsGateways>>

InitBundleFragment ==
    /\ reset_timeout = FALSE
    /\ InitDispatcher /\ InitCache /\ InitRouter /\ InitDuty /\ InitHop /\ InitMqtt /\ NoPace /\ NoLocks /\ InitGateways /\ InitShutdown

NextBundleFragment ==
    \E is_end \in BOOLEAN, fragment_index \in 0..MaxFragmentIndex,
       len \in RemainingLens, data_rate \in FragmentDataRates :
        BundleFragmentNewCall(is_end, fragment_index, len, data_rate)

SpecBundleFragment == InitBundleFragment /\ [][NextBundleFragment]_vars

\* C29: when the payload that remains is shorter than a fragment of the data
\* rate holds, building the end packet succeeds: it is a BundleFragmentEnd
\* with the given fragment index that carries all the remaining bytes, and
\* nothing is left to send.
C29_ShortRemainderYieldsEnd ==
    last_op.op = "bundle_fragment_new"
    => LET call == last_op.frame
           budget == DataRateMaxUsablePayloadSize(call.data_rate) - BundleFragmentHeadersSize
       IN  call.is_end /\ call.payload # <<>> /\ Len(call.payload) < budget
           => /\ last_op.res.ok
              /\ last_op.res.packet.packet_type = "BundleFragmentEnd"
              /\ last_op.res.packet.fragment_index = call.fragment_index
              /\ last_op.res.packet.payload = call.payload
              /\ last_op.res.rest = <<>>

(***************************************************************************)
(* parse_phy_payload on the bytes of a frame (lorawan_protocol/parser.rs)  *)
(***************************************************************************)
\* convert_3_bytes_to_i32: the signed value of three little endian bytes.
Convert3BytesToI32(bytes, at) ==
    LET value == bytes[at + 1] + 256 * bytes[at + 2] + 65536 * bytes[at + 3]
    IN  IF bytes[at + 3] >= 128 THEN value - 16777216 ELSE value

\* many1(parse_end_device_id): the end device ids of the whole groups of four
\* bytes after the first at bytes.
ParseMultipleEndDeviceIds(bytes, at) ==
    [i \in 1..((Len(bytes) - at) \div 4) |-> FromLeBytes(bytes, at + 4 * (i - 1))]

\* parse_bundle on the bytes after the message type: destination, source,
\* timestamp, then parse_convergence_fragment on the bits of the next byte
\* (the fragment flag, and for a fragment its index of seven bits and the
\* total of the byte after it); the payload is what follows.
ParseBundle(bytes) ==
    IF Len(bytes) < 2 + 12 + 1 THEN [ok |-> FALSE, err |-> "Nom"]
    ELSE LET is_fragment == bytes[15] >= 128
             header == [ok |-> TRUE, msg_type |-> "Bundle",
                        destination |-> FromLeBytes(bytes, 2),
                        source |-> FromLeBytes(bytes, 6),
                        timestamp |-> FromLeBytes(bytes, 10)]
         IN  IF ~is_fragment
             THEN header @@ [fragment |-> [yes |-> FALSE, index |-> 0, total_amount |-> 0],
                             payload |-> SubSeq(bytes, 16, Len(bytes))]
             ELSE IF Len(bytes) < 16 THEN [ok |-> FALSE, err |-> "Nom"]
             ELSE IF bytes[15] % 128 >= bytes[16]
             THEN [ok |-> FALSE, err |-> "FragmentIndexBiggerThanTotal"]
             ELSE header @@ [fragment |-> [yes |-> TRUE, index |-> bytes[15] % 128,
                                           total_amount |-> bytes[16]],
                             payload |-> SubSeq(bytes, 17, Len(bytes))]

\* parse_announcement on the bytes after the message type: the source, then
\* parse_announcement_fragment (fragment flag, location flag, an index of six
\* bits and a total), the location of the fragment with index 1, and one or
\* more end device ids.
ParseAnnouncement(bytes) ==
    IF Len(bytes) < 2 + 4 + 1 THEN [ok |-> FALSE, err |-> "Nom"]
    ELSE LET is_fragment == bytes[7] >= 128
             has_location == (bytes[7] \div 64) % 2 = 1
             index == bytes[7] % 64
             ids_at == IF is_fragment THEN 8 ELSE 7
             with_location == has_location /\ is_fragment /\ index = 1
             rest_at == IF with_location THEN ids_at + 9 ELSE ids_at
         IN  IF is_fragment /\ Len(bytes) < 8 THEN [ok |-> FALSE, err |-> "Nom"]
             ELSE IF is_fragment /\ index >= bytes[8]
             THEN [ok |-> FALSE, err |-> "FragmentIndexBiggerThanTotal"]
             ELSE IF Len(bytes) < rest_at + 4 THEN [ok |-> FALSE, err |-> "Nom"]
             ELSE [ok |-> TRUE, msg_type |-> "Announcement",
                   source |-> FromLeBytes(bytes, 2),
                   fragment |-> IF is_fragment
                                THEN [yes |-> TRUE, index |-> index, total_amount |-> bytes[8]]
                                ELSE [yes |-> FALSE, index |-> 0, total_amount |-> 0],
                   location |-> IF with_location
                                THEN <<Convert3BytesToI32(bytes, ids_at),
                                       Convert3BytesToI32(bytes, ids_at + 3),
                                       Convert3BytesToI32(bytes, ids_at + 6)>>
                                ELSE <<>>,
                   reachable_ids |-> ParseMultipleEndDeviceIds(bytes, rest_at)]

\* parse_phy_payload: parse_mac_header (0b111x_xx00), parse_msg_type (0 is a
\* bundle, 1 an announcement), then parse_bundle or parse_announcement.
ParsePhyPayloadBytes(bytes) ==
    IF bytes = <<>> THEN [ok |-> FALSE, err |-> "Nom"]
    ELSE IF bytes[1] \div 32 # 7 THEN [ok |-> FALSE, err |-> "NoProprietaryTag"]
    ELSE IF bytes[1] % 4 # 0 THEN [ok |-> FALSE, err |-> "WrongVersionTag"]
    ELSE IF Len(bytes) < 2 THEN [ok |-> FALSE, err |-> "Nom"]
    ELSE IF bytes[2] \notin {0, 1} THEN [ok |-> FALSE, err |-> "UnknownMsgType"]
    ELSE IF bytes[2] = 0 THEN ParseBundle(bytes)
    ELSE ParseAnnouncement(bytes)

\* The packet a parsed message stands for: a bundle that is no fragment is a
\* complete bundle, a bundle fragment is a bundle fragment that ends the
\* bundle when its index is the last one.
AsPacket(parsed) ==
    IF ~parsed.ok THEN [packet_type |-> "None", err |-> parsed.err]
    ELSE IF parsed.msg_type = "Announcement"
    THEN [packet_type |-> "LocalAnnouncement", location |-> parsed.location,
          end_device_ids |-> parsed.reachable_ids]
    ELSE IF ~parsed.fragment.yes
    THEN CompleteBundle(parsed.destination, parsed.source, parsed.timestamp, parsed.payload)
    ELSE LET is_end == parsed.fragment.index = parsed.fragment.total_amount - 1
         IN  [packet_type |-> IF is_end THEN "BundleFragmentEnd" ELSE "BundleFragment",
              destination |-> parsed.destination, source |-> parsed.source,
              timestamp |-> parsed.timestamp, is_end |-> is_end,
              fragment_index |-> parsed.fragment.index, payload |-> parsed.payload]

\* The payloads of the complete bundles that are encoded.
CodecPayloads ==
    {<<>>, <<1>>, <<1, 2>>, <<0, 1, 2>>, <<127, 5>>, <<128, 1, 7>>, <<129, 2, 3, 4>>,
     <<200, 3>>}

\* The packets the builders construct: CompleteBundle::new for payloads that
\* fit, BundleFragment::new where it returns a packet, and the fragments of
\* convert_to_hop_2_hop_fragments.
CodecPackets ==
    {CompleteBundle(d, src, t, pl) :
        d \in {7, 9, 300}, src \in {1, 2}, t \in {11, 1700000000}, pl \in CodecPayloads}
    \cup {r.packet : r \in {n \in {BundleFragmentNew(9, 7, 21, is_end, idx, Payload(len), dr) :
                                       is_end \in BOOLEAN, idx \in 0..MaxFragmentIndex,
                                       len \in RemainingLens, dr \in FragmentDataRates} :
                                n.ok}}
    \cup UNION {{f.fragments[i] : i \in 1..Len(f.fragments)} : f \in HopFragmentations}

\* A packet is encoded for the wire and the bytes are parsed again.
EncodeDecode(packet) ==
    /\ last_op' = Op("decode_phy", packet,
                     AsPacket(ParsePhyPayloadBytes(PhyPayloadBytes(packet))), 0)
    /\ UNCHANGED <<now, reset_timeout, varsMqtt, varsPace, varsLocks, varsShutdown, varsUplink, varsCache, varsRouter,
                   varsDuty, varsHop, varsGateways>>

InitCodec ==
    /\ reset_timeout = FALSE
    /\ InitDispatcher /\ InitCache /\ InitRouter /\ InitDuty /\ InitHop /\ InitMqtt /\ NoPace /\ NoLocks /\ InitGateways /\ InitShutdown

NextCodec == \E packet \in CodecPackets : EncodeDecode(packet)

SpecCodec == InitCodec /\ [][NextCodec]_vars

\* C32: decoding the encoded bytes of a packet of any kind gives the packet
\* back.
C32_CodecRoundTrip ==
    last_op.op = "decode_phy" => last_op.res = last_op.frame

(***************************************************************************)
(* The MQTT runtime (chirpstack_gwb_integration/src/runtime.rs,            *)
(* runtime/event_loop.rs) and its tasks in app_start.rs                    *)
(***************************************************************************)
\* AsyncClient::new(mqtt_options, 10): the capacity of the request channel.
ClientRequestCapacity == 10

\* tokio::sync::mpsc::channel(1) of the stop signal.
StopSignalCapacity == 1

\* Duration::from_secs(30) and the threshold of error_counter in run_event_loop.
ErrorWindowSecs == 30
ErrorThreshold == 3

\* The client's try_send on its request channel: refused when the channel is
\* full or the event loop, which owns the receiving end, is gone.
ClientTrySend(chan, loop, item) ==
    IF loop = "running" /\ Len(chan) < ClientRequestCapacity
    THEN [ok |-> TRUE, chan |-> Append(chan, item)]
    ELSE [ok |-> FALSE, chan |-> chan]

\* Runtime::try_enqueue on the handle: Err(Stopped) when received_stop of this
\* handle is set, else the downlink goes to mqtt_client.try_publish.
TryEnqueue(h) ==
    /\ enqueues < MaxEnqueues
    /\ enqueues' = enqueues + 1
    /\ IF runtime_handles[h]
       THEN /\ mqtt_requests' = mqtt_requests
            /\ last_op' = Op("try_enqueue", h, "Stopped", 0)
       ELSE LET sent == ClientTrySend(mqtt_requests, event_loop, "Publish")
            IN  /\ mqtt_requests' = sent.chan
                /\ last_op' = Op("try_enqueue", h, IF sent.ok THEN "Ok" ELSE "ClientError", 0)
    /\ UNCHANGED <<now, reset_timeout, varsPace, varsLocks, varsUplink, varsCache, varsRouter, varsDuty, varsHop,
                   varsGateways, varsShutdown, runtime_handles, stop_signal, event_loop,
                   mqtt_published, error_counter, last_error, error_times,
                   connection_errors, error_task, mqtt_shutdown>>

\* Runtime::enqueue on the handle: as try_enqueue, but publish(..).await waits
\* while the request channel is full.
Enqueue(h) ==
    /\ enqueues < MaxEnqueues
    /\ runtime_handles[h] \/ event_loop # "running"
            \/ Len(mqtt_requests) < ClientRequestCapacity
    /\ enqueues' = enqueues + 1
    /\ IF runtime_handles[h]
       THEN /\ mqtt_requests' = mqtt_requests
            /\ last_op' = Op("enqueue", h, "Stopped", 0)
       ELSE LET sent == ClientTrySend(mqtt_requests, event_loop, "Publish")
            IN  /\ mqtt_requests' = sent.chan
                /\ last_op' = Op("enqueue", h, IF sent.ok THEN "Ok" ELSE "ClientError", 0)
    /\ UNCHANGED <<now, reset_timeout, varsPace, varsLocks, varsUplink, varsCache, varsRouter, varsDuty, varsHop,
                   varsGateways, varsShutdown, runtime_handles, stop_signal, event_loop,
                   mqtt_published, error_counter, last_error, error_times,
                   connection_errors, error_task, mqtt_shutdown>>

\* runtime_shutdown_task: await_shutdown has returned and stop_event_loop runs
\* on the task's clone: try_disconnect, try_send on the stop signal channel,
\* and received_stop of this clone is set.
RuntimeShutdownTask ==
    /\ mqtt_shutdown # None
    /\ ~runtime_handles["shutdown_task"]
    /\ mqtt_requests' = ClientTrySend(mqtt_requests, event_loop, "Disconnect").chan
    /\ stop_signal' = IF event_loop = "running" /\ stop_signal < StopSignalCapacity
                      THEN stop_signal + 1 ELSE stop_signal
    /\ runtime_handles' = [runtime_handles EXCEPT !["shutdown_task"] = TRUE]
    /\ last_op' = Op("stop_event_loop", "shutdown_task", "Ok", 0)
    /\ UNCHANGED <<now, reset_timeout, varsPace, varsLocks, varsUplink, varsCache, varsRouter, varsDuty, varsHop,
                   varsGateways, varsShutdown, event_loop, mqtt_published, enqueues,
                   error_counter, last_error, error_times, connection_errors, error_task,
                   mqtt_shutdown>>

\* run_event_loop, the select! arm of event_loop.poll() when the client has
\* handed it a request: a publish is sent to the broker.
EventLoopPollRequest ==
    /\ event_loop = "running"
    /\ mqtt_requests # <<>>
    /\ mqtt_requests' = Tail(mqtt_requests)
    /\ mqtt_published' = IF Head(mqtt_requests) = "Publish" THEN mqtt_published + 1
                         ELSE mqtt_published
    /\ UNCHANGED <<now, reset_timeout, varsPace, varsLocks, last_op, varsUplink, varsCache, varsRouter, varsDuty,
                   varsHop, varsGateways, varsShutdown, runtime_handles, stop_signal,
                   event_loop, enqueues, error_counter, last_error, error_times,
                   connection_errors, error_task, mqtt_shutdown>>

\* run_event_loop, the select! arm of stop_signal_rx.recv(): the task returns
\* and drops the event loop and the receiving ends.
EventLoopStopSignal ==
    /\ event_loop = "running"
    /\ stop_signal > 0
    /\ event_loop' = "stopped"
    /\ stop_signal' = 0
    /\ UNCHANGED <<now, reset_timeout, varsPace, varsLocks, last_op, varsUplink, varsCache, varsRouter, varsDuty,
                   varsHop, varsGateways, varsShutdown, runtime_handles, mqtt_requests,
                   mqtt_published, enqueues, error_counter, last_error, error_times,
                   connection_errors, error_task, mqtt_shutdown>>

\* run_event_loop, the arm Err(e) of the match on the notification: the
\* counter starts over at 1 when last_error is more than 30 seconds ago and is
\* incremented otherwise; from error_counter >= 3 on the error is sent on the
\* broadcast channel when that has a receiver.
EventLoopPollError ==
    /\ event_loop = "running"
    /\ Len(error_times) < MaxErrors
    /\ LET reset == now - last_error > ErrorWindowSecs
           counter == IF reset THEN 1 ELSE error_counter + 1
           report == counter >= ErrorThreshold /\ error_task = "running"
       IN  /\ last_error' = IF reset THEN now ELSE last_error
           /\ error_counter' = counter
           /\ connection_errors' = IF report THEN connection_errors + 1
                                   ELSE connection_errors
           /\ last_op' = Op("poll_error", now, IF report THEN "reported" ELSE "counted", 0)
    /\ error_times' = Append(error_times, now)
    /\ UNCHANGED <<now, reset_timeout, varsPace, varsLocks, varsUplink, varsCache, varsRouter, varsDuty, varsHop,
                   varsGateways, varsShutdown, runtime_handles, mqtt_requests, stop_signal,
                   event_loop, mqtt_published, enqueues, error_task, mqtt_shutdown>>

\* mqtt_connection_error_task, the select! arm of the broadcast receiver:
\* initiate_shutdown(ShutdownConditions::MqttError).
MqttConnectionErrorTaskRecv ==
    /\ error_task = "running"
    /\ connection_errors > 0
    /\ connection_errors' = connection_errors - 1
    /\ mqtt_shutdown' = IF mqtt_shutdown = None THEN "MqttError" ELSE mqtt_shutdown
    /\ UNCHANGED <<now, reset_timeout, varsPace, varsLocks, last_op, varsUplink, varsCache, varsRouter, varsDuty,
                   varsHop, varsGateways, varsShutdown, runtime_handles, mqtt_requests,
                   stop_signal, event_loop, mqtt_published, enqueues, error_counter,
                   last_error, error_times, error_task>>

\* mqtt_connection_error_task, the select! arm of await_shutdown: the task
\* returns and its receiver is dropped.
MqttConnectionErrorTaskShutdown ==
    /\ error_task = "running"
    /\ mqtt_shutdown # None
    /\ error_task' = "returned"
    /\ connection_errors' = 0
    /\ UNCHANGED <<now, reset_timeout, varsPace, varsLocks, last_op, varsUplink, varsCache, varsRouter, varsDuty,
                   varsHop, varsGateways, varsShutdown, runtime_handles, mqtt_requests,
                   stop_signal, event_loop, mqtt_published, enqueues, error_counter,
                   last_error, error_times, mqtt_shutdown>>

\* A shutdown is initiated for another reason (a restart request).
RestartRequested ==
    /\ mqtt_shutdown = None
    /\ mqtt_shutdown' = "Restart"
    /\ UNCHANGED <<now, reset_timeout, varsPace, varsLocks, last_op, varsUplink, varsCache, varsRouter, varsDuty,
                   varsHop, varsGateways, varsShutdown, runtime_handles, mqtt_requests,
                   stop_signal, event_loop, mqtt_published, enqueues, error_counter,
                   last_error, error_times, connection_errors, error_task>>

\* The seconds that pass between two steps.
MqttClockSteps == {10, 31}

TickMqtt(d) ==
    /\ now + d <= MaxMqttSeconds
    /\ now' = now + d
    /\ UNCHANGED <<reset_timeout, varsMqtt, varsPace, varsLocks, last_op, varsUplink, varsCache, varsRouter,
                   varsDuty, varsHop, varsGateways, varsShutdown>>

InitMqttSpec ==
    /\ reset_timeout = FALSE
    /\ InitDispatcher /\ InitCache /\ InitRouter /\ InitDuty /\ InitHop /\ InitMqtt /\ NoPace /\ NoLocks /\ InitGateways /\ InitShutdown

NextMqtt ==
    \/ \E h \in RuntimeHandles : TryEnqueue(h)
    \/ \E h \in RuntimeHandles : Enqueue(h)
    \/ RuntimeShutdownTask
    \/ EventLoopPollRequest
    \/ EventLoopStopSignal
    \/ EventLoopPollError
    \/ MqttConnectionErrorTaskRecv
    \/ MqttConnectionErrorTaskShutdown
    \/ RestartRequested
    \/ \E d \in MqttClockSteps : TickMqtt(d)

SpecMqtt == InitMqttSpec /\ [][NextMqtt]_vars

\* The connection errors that lie at most the window before the time t.
ErrorsWithinWindow(t) ==
    {i \in 1..Len(error_times) : t - error_times[i] <= ErrorWindowSecs}

\* C40: the event loop reports a connection failure only when more than 3
\* connection errors have occurred within 30 seconds.
C40_ReportOnlyAboveThreeErrors ==
    last_op.op = "poll_error" /\ last_op.res = "reported"
        => Cardinality(ErrorsWithinWindow(last_op.frame)) > 3

\* C35: once stop_event_loop has been called on a handle of the runtime,
\* enqueue and try_enqueue on every handle return Stopped and hand nothing
\* to the MQTT client.
C35_StoppedOnEveryHandle ==
    [][(\E h \in RuntimeHandles : runtime_handles[h]) /\ enqueues' = enqueues + 1
          => last_op'.res = "Stopped" /\ mqtt_requests' = mqtt_requests]_vars

(***************************************************************************)
(* Restart: save_state_to_db (database.rs) and start (app_start.rs)        *)
(***************************************************************************)
\* The daemon shuts down for a restart and starts again with the next
\* configuration, whose relay queue size is relay_queue_size. save_state_to_db
\* writes the two queues and the packet cache; start fetches them and hands
\* the queues to QueueManager::new as they are. What lived in memory only
\* (channels, receive buffers, the router's position) starts afresh.
Restart(relay_queue_size) ==
    /\ max_relay_packets' = relay_queue_size
    /\ relay_packet_queue' = relay_packet_queue
    /\ bundle_send_buffer_queue' = bundle_send_buffer_queue
    /\ relay_tx' = <<>>
    /\ bundle_send_buffer_tx' = <<>>
    /\ bundle_receive_buffer_map' = EmptyMap
    /\ message_cache' = EmptyMap
    /\ uplink_task' = "running"
    /\ router_pc' = "sleep"
    /\ skip_delay' = FALSE
    /\ relay_empty_at_check' = FALSE
    /\ slept' = FALSE
    /\ tick_error' = FALSE
    /\ last_op' = Op("restart", None, "Ok", 0)
    /\ UNCHANGED <<now, reset_timeout, varsMqtt, varsPace, varsLocks, varsShutdown, varsHop, varsGateways,
                   varsDuty, varsCache, end_device_ids, bundles_to_ws, uplinks, handled_at,
                   uplink_tx_info, bundles>>

\* The relay queue sizes a configuration is saved with.
RelayQueueSizes == {MaxRelayPackets, MaxRelayPackets + 1}

NextRestart ==
    \/ NextRelayQueue
    \/ \E bundle \in WsBundles : BundlesProcess(bundle)
    \/ CollectBundleSendBuffer
    \/ \E relay_queue_size \in RelayQueueSizes : Restart(relay_queue_size)

SpecRestart == InitRelayQueue /\ [][NextRestart]_vars

\* C37: the relay queue never holds more items than the configured relay
\* queue size and the send buffer queue never more than the configured bundle
\* queue size, also directly after a start that restored the queues.
C37_QueuesWithinSize ==
    /\ Len(relay_packet_queue) <= max_relay_packets
    /\ Len(bundle_send_buffer_queue) <= MaxBundleBuffers

(***************************************************************************)
(* The order in which the tasks take the tokio mutexes of AppState         *)
(***************************************************************************)
\* A step of a task on a mutex.
Lock(m) == <<"lock", m>>
Unlock(m) == <<"unlock", m>>

\* routing_task: the relay block locks the relay queue for the pop; the send
\* buffer block locks the send buffer queue and passes the guard to
\* get_next_payload_from_send_buffer_queue, which returns early or awaits
\* packet_cache.insert, that is the packet cache mutex, with the guard held.
RouterLocks ==
    {<<Lock("relay_packet_queue"), Unlock("relay_packet_queue")>>,
     <<Lock("relay_packet_queue"), Unlock("relay_packet_queue"),
       Lock("bundle_send_buffer_queue"), Unlock("bundle_send_buffer_queue")>>,
     <<Lock("relay_packet_queue"), Unlock("relay_packet_queue"),
       Lock("bundle_send_buffer_queue"), Lock("packet_cache"), Unlock("packet_cache"),
       Unlock("bundle_send_buffer_queue")>>}

\* A persistence step that writes the packet cache and the send buffer queue
\* under both locks.
PersistenceLocksNested ==
    {<<Lock("configuration"), Unlock("configuration"),
       Lock("relay_packet_queue"), Unlock("relay_packet_queue"),
       Lock("duty_cycle_manager"), Unlock("duty_cycle_manager"),
       Lock("packet_cache"), Lock("bundle_send_buffer_queue"),
       Unlock("bundle_send_buffer_queue"), Unlock("packet_cache")>>}

\* save_state_to_db: one guard per insert_into_db call, dropped when the call
\* has returned: configuration, relay queue, send buffer queue, duty cycle
\* manager, packet cache.
PersistenceLocks ==
    {<<Lock("configuration"), Unlock("configuration"),
       Lock("relay_packet_queue"), Unlock("relay_packet_queue"),
       Lock("bundle_send_buffer_queue"), Unlock("bundle_send_buffer_queue"),
       Lock("duty_cycle_manager"), Unlock("duty_cycle_manager"),
       Lock("packet_cache"), Unlock("packet_cache")>>}

\* The rounds of each task: Flooding::flooding holds the gateway ids over its
\* loop, collect_send_items_task locks the queue it pushes to,
\* cache_clean_task the packet cache, the duty cycle collector the duty cycle
\* manager, update_gateways the gateway ids for the assignment.
LockRounds(t) ==
    CASE t = "router" -> RouterLocks
      [] t = "flooding" -> {<<Lock("gateway_ids"), Unlock("gateway_ids")>>}
      [] t = "queue_collector" ->
            {<<Lock("relay_packet_queue"), Unlock("relay_packet_queue")>>,
             <<Lock("bundle_send_buffer_queue"), Unlock("bundle_send_buffer_queue")>>}
      [] t = "cache_sweeper" -> {<<Lock("packet_cache"), Unlock("packet_cache")>>}
      [] t = "duty_cycle_collector" ->
            {<<Lock("duty_cycle_manager"), Unlock("duty_cycle_manager")>>}
      [] t = "gateway_ids_manager" -> {<<Lock("gateway_ids"), Unlock("gateway_ids")>>}
      [] t = "persistence" -> PersistenceLocks

\* The task waits in lock().await of the mutex.
WaitsFor(t, m) == \E i \in 1..Len(lock_waiters[m]) : lock_waiters[m][i] = t

Waiting(t) == \E m \in Mutexes : WaitsFor(t, m)

\* A task that is in no round begins one.
LockTaskBegin(t, round) ==
    /\ lock_tasks[t] = <<>>
    /\ round \in LockRounds(t)
    /\ lock_tasks' = [lock_tasks EXCEPT ![t] = round]
    /\ UNCHANGED <<now, reset_timeout, last_op, varsUplink, varsCache, varsRouter, varsDuty,
                   varsHop, varsGateways, varsShutdown, varsMqtt, varsPace, mutexes,
                   lock_waiters>>

\* Mutex::lock().await: the task gets a free mutex at once and queues up for
\* a held one.
LockTaskLock(t) ==
    /\ lock_tasks[t] # <<>>
    /\ ~Waiting(t)
    /\ Head(lock_tasks[t])[1] = "lock"
    /\ LET m == Head(lock_tasks[t])[2]
       IN  IF mutexes[m] = None
           THEN /\ mutexes' = [mutexes EXCEPT ![m] = t]
                /\ lock_tasks' = [lock_tasks EXCEPT ![t] = Tail(@)]
                /\ UNCHANGED lock_waiters
           ELSE /\ lock_waiters' = [lock_waiters EXCEPT ![m] = Append(@, t)]
                /\ UNCHANGED <<mutexes, lock_tasks>>
    /\ UNCHANGED <<now, reset_timeout, last_op, varsUplink, varsCache, varsRouter, varsDuty,
                   varsHop, varsGateways, varsShutdown, varsMqtt, varsPace>>

\* The guard is dropped: the mutex goes to the task that has waited longest,
\* which goes on behind its lock().await.
LockTaskUnlock(t) ==
    /\ lock_tasks[t] # <<>>
    /\ Head(lock_tasks[t])[1] = "unlock"
    /\ LET m == Head(lock_tasks[t])[2]
           next == IF lock_waiters[m] = <<>> THEN None ELSE Head(lock_waiters[m])
       IN  /\ mutexes' = [mutexes EXCEPT ![m] = next]
           /\ lock_waiters' = [lock_waiters EXCEPT ![m] = IF @ = <<>> THEN @ ELSE Tail(@)]
           /\ lock_tasks' = [u \in LockTasks |->
                                IF u = t \/ u = next THEN Tail(lock_tasks[u])
                                ELSE lock_tasks[u]]
    /\ UNCHANGED <<now, reset_timeout, last_op, varsUplink, varsCache, varsRouter, varsDuty,
                   varsHop, varsGateways, varsShutdown, varsMqtt, varsPace>>

InitLocks ==
    /\ reset_timeout = FALSE
    /\ InitDispatcher /\ InitCache /\ InitRouter /\ InitDuty /\ InitHop /\ InitMqtt
    /\ InitGateways /\ InitShutdown
    /\ since_flood = 0 /\ flood_gap = 0 /\ router_floods = 0 /\ pace_followed = FALSE
    /\ NoLocks

NextLocks ==
    \/ \E t \in LockTasks : \E round \in LockRounds(t) : LockTaskBegin(t, round)
    \/ \E t \in LockTasks : LockTaskLock(t)
    \/ \E t \in LockTasks : LockTaskUnlock(t)

SpecLocks == InitLocks /\ [][NextLocks]_vars

\* Some tasks wait for mutexes that only tasks among them hold.
Deadlocked ==
    \E D \in SUBSET LockTasks \ {{}} :
        \A t \in D : \E m \in Mutexes : WaitsFor(t, m) /\ mutexes[m] \in D

\* C38: the tasks never deadlock on the mutexes; while the router waits for
\* the packet cache with the send buffer queue locked, the holder of the
\* packet cache waits for no mutex.
C38_NoDeadlock ==
    /\ ~Deadlocked
    /\ WaitsFor("router", "packet_cache") => ~Waiting(mutexes["packet_cache"])

\* The router waits for the packet cache with the send buffer queue locked
\* while the queue collector and the persistence step wait for that queue.
C38_Witness ==
    /\ mutexes["bundle_send_buffer_queue"] = "router"
    /\ WaitsFor("router", "packet_cache")
    /\ WaitsFor("queue_collector", "bundle_send_buffer_queue")
    /\ WaitsFor("persistence", "bundle_send_buffer_queue")

====
